---- MODULE Spec2Model ----
(***************************************************************************)
(* BassetHoundClient (examples/python-client-example.py): the command /    *)
(* response correlation of the WebSocket client.  The calling threads run  *)
(* connect(), disconnect() and _send_command(); the socket's background    *)
(* thread runs the callbacks on_open, on_message and on_close.  The two    *)
(* sides share connected, responses and command_counter without a lock, so *)
(* every read and write of a shared attribute is a step of its own.        *)
(*                                                                         *)
(* JSON values are written as their JSON text ("true", "0", "r1"), a       *)
(* parsed JSON object is a function from its keys to such texts, and a     *)
(* frame on the wire is a record holding the member list of its text.      *)
(***************************************************************************)
EXTENDS Integers, Sequences, FiniteSets, TLC

\* ------------------------------------------------------------------ bounds
MaxCmds == 2        \* _send_command calls of a thread
MaxConnects == 1    \* connect() calls of a run
MaxFrames == 3      \* frames the sockets deliver in a run
MaxScrapes == 2     \* scrape_article calls of a run

\* ------------------------------------------------------------------ values
NoId == "-"
NoDict == [k \in {} |-> ""]
NoOutcome == [op |-> "-", kind |-> "none", exc |-> "-", val |-> "-"]

Returned(o, v) == [op |-> o, kind |-> "returned", exc |-> "-", val |-> v]
Raised(o, e, m) == [op |-> o, kind |-> "raised", exc |-> e, val |-> m]

\* command_type and params are copied into the frame and never read again
CommandTypes == {"navigate"}
ParamValues == {"{}"}
\* _send_command's default timeout argument, in seconds
CommandTimeout == 30

\* f"cmd-{self.command_counter}"
CmdId(n) == "cmd-" \o ToString(n)

\* truth value of a JSON value as Python's `not` sees it after json.loads
Truthy(v) == v \notin {"None", "false", "0", "\"\"", "null", "[]", "{}"}

\* dict.get(key, default)
Get(d, k, default) == IF k \in DOMAIN d THEN d[k] ELSE default

\* dict[key] = value
DictSet(d, k, v) == [x \in DOMAIN d \cup {k} |-> IF x = k THEN v ELSE d[x]]

\* the dict left by dict.pop(key)
DictDel(d, k) == [x \in DOMAIN d \ {k} |-> d[x]]

\* json.dumps of the command dict: an object text, members in insertion order
JsonDumps(command_id, command_type, params) ==
    [valid |-> TRUE, kind |-> "object",
     members |-> << <<"command_id", command_id>>,
                    <<"type", command_type>>,
                    <<"params", params>> >>]

\* json.loads of an object text: the dict of its members, a later member winning
JsonLoads(message) ==
    LET ms == message.members
        keys == {ms[i][1] : i \in 1..Len(ms)}
        last(k) == CHOOSE i \in 1..Len(ms) :
                      /\ ms[i][1] = k
                      /\ \A j \in 1..Len(ms) : ms[j][1] = k => j <= i
    IN [k \in keys |-> ms[last(k)][2]]

ObjectText(ms) == [valid |-> TRUE, kind |-> "object", members |-> ms]
ArrayText == [valid |-> TRUE, kind |-> "array", members |-> <<>>]
InvalidText == [valid |-> FALSE, kind |-> "garbage", members |-> <<>>]

\* the frames the server side may put on the wire
FrameIds == {CmdId(n) : n \in 1..MaxCmds}
Replies(c) ==
    { ObjectText(<< <<"command_id", c>>, <<"success", "true">>, <<"result", "r1">> >>),
      ObjectText(<< <<"command_id", c>>, <<"success", "true">> >>),
      ObjectText(<< <<"command_id", c>>, <<"success", "false">>, <<"result", "r1">> >>),
      ObjectText(<< <<"command_id", c>>, <<"success", "0">>, <<"error", "boom">> >>),
      ObjectText(<< <<"command_id", c>>, <<"type", "connected">>, <<"result", "r2">> >>) }
Unsolicited ==
    { ObjectText(<< <<"type", "connected">> >>),
      ObjectText(<< <<"type", "event">> >>),
      ObjectText(<<>>),
      ArrayText,
      InvalidText }
Frames == UNION {Replies(c) : c \in FrameIds} \cup Unsolicited

\* ------------------------------------------------------------------- state
VARIABLES
    connected,        \* self.connected
    responses,        \* self.responses
    command_counter,  \* self.command_counter
    ws,               \* self.ws: 0 is None, i the i-th WebSocketApp created
    socks,            \* how many WebSocketApp threads are connecting, and how many open
    sent,             \* the frames handed to ws.send, in order, with the sending thread
    callers,          \* the calling threads
    pc,               \* each calling thread's position
    command_id,       \* _send_command's local command_id
    loaded,           \* the value of command_counter read by `+= 1`
    expired,          \* connect: time.time() - start_time >= timeout;
                      \* _send_command: time.time() - start_time > timeout
    response,         \* _send_command's local response
    outcome,          \* how each thread's last call ended
    hist,             \* history of each thread's current or last call
    setBy,            \* history: on_message's connected branch made the last write
                      \* of self.connected
    delivered,        \* history: the number of frames on_message has been called with
    todo,             \* the number of _send_command calls each thread has yet to make
    connects,         \* the number of connect() calls the run has yet to make
    trace,            \* history: the last of on_message, on_close and disconnect() to
                      \* run, with the frame on_message was given
    \* flask_test_app/app.py
    temp_configs,     \* the module's dict temp_configs
    files,            \* the paths at which a YAML configuration file exists
    request,          \* history: the request handled last
    reply,            \* the response to it
    posted,           \* history: the form last submitted for each domain, and the
                      \* domain of the last submit
    \* examples/form-automation-example.py, FormAutomator
    fa_pc,            \* the position of the fill_form_intelligently call
    form_data,        \* its argument form_data, as the list of its items
    submit_arg,       \* its argument submit
    page_state,       \* analyze_form's local state, the page state the client returned
    analysis,         \* fill_form_intelligently's local analysis
    fields_to_fill,   \* its local fields_to_fill
    fa_sent,          \* history: the commands the call has sent through the client
    fa_outcome,       \* how the call ended
    ms_pc,            \* the position of the fill_multi_step_form call
    ms_steps,         \* its argument steps
    ms_idx,           \* its local idx
    ms_results,       \* its local results
    ms_sent,          \* history: the commands the call has sent, with the step and
                      \* the exception the command ended with
    ms_outcome,       \* how the call ended
    \* examples/network-analysis-example.py, NetworkAnalyzer.run_analysis
    na_pc,            \* the position of the run_analysis call
    na_url,           \* its argument url
    na_duration,      \* its argument duration
    na_results,       \* its local results
    na_sent,          \* history: the commands the call has sent through the client,
                      \* each with the exception its step ended with
    na_outcome,       \* how the call ended
    \* examples/web-scraping-example.py, WebScraper
    errors,           \* self.errors
    sc_pc,            \* the position of the scrape_article call
    sc_url,           \* its argument url
    sc_state,         \* its local state
    content_text,     \* its local content_text
    metadata,         \* its local metadata
    tried,            \* the number of content_selectors the loop has taken
    last_cmd,         \* history: the client command the call made last, and the
                      \* exception it ended with
    sc_result,        \* how the call ended
    scrapes,          \* the number of scrape_article calls the run has yet to make
    scraped_data,     \* self.scraped_data
    job,              \* which of scrape_list and scrape_with_pagination runs or ran
                      \* last, and its position
    urls,             \* scrape_list's argument urls
    idx,              \* its loop variable idx
    results,          \* the local results of scrape_list or scrape_with_pagination
    current_url,      \* scrape_with_pagination's local current_url
    page,             \* its local page
    max_pages,        \* its argument max_pages
    reported,         \* the number in its log line 'Scraped {page} pages total'
    exported          \* what export_to_csv or export_to_json wrote last

vars == <<connected, responses, command_counter, ws, socks, sent, callers, pc,
          command_id, loaded, expired, response, outcome, hist, setBy,
          delivered, todo, connects, trace,
          temp_configs, files, request, reply, posted,
          fa_pc, form_data, submit_arg, page_state, analysis, fields_to_fill, fa_sent,
          fa_outcome, ms_pc, ms_steps, ms_idx, ms_results, ms_sent, ms_outcome,
          errors, sc_pc, sc_url, sc_state, content_text, metadata, tried, last_cmd,
          sc_result, scrapes,
          scraped_data, job, urls, idx, results, current_url, page, max_pages,
          reported, exported,
          na_pc, na_url, na_duration, na_results, na_sent, na_outcome>>

\* the state of the programs other than the client
flask == <<temp_configs, files, request, reply, posted>>
multistep == <<ms_pc, ms_steps, ms_idx, ms_results, ms_sent, ms_outcome>>
automator == <<fa_pc, form_data, submit_arg, page_state, analysis, fields_to_fill,
               fa_sent, fa_outcome, multistep>>
scraper == <<errors, sc_pc, sc_url, sc_state, content_text, metadata, tried,
             last_cmd, sc_result, scrapes>>
driver == <<scraped_data, job, urls, idx, results, current_url, page, max_pages,
            reported, exported>>
analyzer == <<na_pc, na_url, na_duration, na_results, na_sent, na_outcome>>
others == <<flask, automator, scraper, driver, analyzer>>

budget == <<callers, delivered, todo>>
fixed == <<budget, connects, trace, others>>
shared == <<connected, responses, command_counter, ws, socks, sent>>
locals == <<command_id, loaded, expired, response>>

\* a thread's history of its current or last call
NoHist ==
    [nsent |-> 0,           \* frames this call handed to ws.send
     passed |-> FALSE,      \* the call passed the connected check
     got |-> "no",          \* a response with its command_id came: "no", or first
                            \* "early" (before the timeout elapsed) or "late" (after)
     atPoll |-> FALSE,      \* a response with its command_id had come by its latest poll
     badJson |-> FALSE,     \* an unparsable frame came while the call was waiting
     seenTrue |-> FALSE,    \* connected was True at some moment of the connect() call
     setLate |-> FALSE]     \* connected was set True after the connect timeout elapsed

Threads == {"t1", "t2"}

NoFrame == [valid |-> FALSE, kind |-> "-", members |-> <<>>]
NoTrace == [op |-> "-", frame |-> NoFrame, flip |-> FALSE]

\* ------------------------------------------- flask_test_app/app.py: values
\* Python's None, as request.form.get and request.args.get give it for a
\* missing field; no form value is this text
None == "<None>"
\* f"{v}"
Str(v) == IF v = None THEN "None" ELSE v
\* a or b
Or(a, b) == IF a \in {None, ""} THEN b ELSE a

DefaultDomain == "haveibeenpwned.com"
\* a dict of dicts is written as the function from the path of each leaf to the leaf
EmailPath == "fields/email/input#AccountCheck_Account"
PhonePath == "fields/phone/input#PhoneField"
\* the dict literal of submit()
Config(email, phone) == (EmailPath :> email) @@ (PhonePath :> phone)
\* jsonify: every leaf becomes its JSON text
JsonValue(v) == IF v = None THEN "null" ELSE "\"" \o v \o "\""
Jsonify(d) == [k \in DOMAIN d |-> JsonValue(d[k])]
\* os.path.join('configs', f'{origin}.yaml')
ConfigPath(origin) == "configs/" \o Str(origin) \o ".yaml"
\* yaml.safe_load of the file at a path: each file holds a configuration of its own
SafeLoad(path) == ("fields/username/input#User" :> ("from " \o path))

\* the HTTP responses
Redirect(url) == [status |-> 302, location |-> url, json |-> NoDict]
Json(status, doc) == [status |-> status, location |-> "", json |-> doc]
NotFound == Json(404, Jsonify("error" :> "No config found"))
NoReply == [status |-> 0, location |-> "", json |-> NoDict]

\* what the requests of a run carry
Emails == {None, "a@x.org", "b@y.org"}
Phones == {None, "", "555"}
Targets == {None, "", "d1.org"}
Origins == {None, "d1.org", "d2.org", DefaultDomain}
ConfigFiles == {ConfigPath(o) : o \in {None, "d1.org", "d2.org"}}

NoRequest == [route |-> "-", email |-> None, phone |-> None, target |-> None,
              origin |-> None]
NoPosted == [last |-> "-", form |-> [d \in {} |-> [email |-> None, phone |-> None]]]

FlaskInitWith(fs) ==
    /\ temp_configs = NoDict
    /\ files = fs
    /\ request = NoRequest
    /\ reply = NoReply
    /\ posted = NoPosted

FlaskIdle == FlaskInitWith({})

\* ------------------------- examples/form-automation-example.py: values
\* the fields and forms a page state may list
EmailField == [selector |-> "#email", name |-> "Email", label |-> "E-mail",
               placeholder |-> "you@example.org", required |-> TRUE]
NameField == [selector |-> "#name", name |-> "fullname", label |-> "Name",
              placeholder |-> "", required |-> FALSE]
LoginForm == [id |-> "login", fields |-> <<EmailField, NameField>>]
BareForm == [id |-> "bare", fields |-> <<>>]

\* the results of get_page_state: the key 'forms' is absent, null or a list
PageStates ==
    { [forms |-> "absent", list |-> <<>>],
      [forms |-> "null", list |-> <<>>],
      [forms |-> "list", list |-> <<>>],
      [forms |-> "list", list |-> <<LoginForm>>],
      [forms |-> "list", list |-> <<BareForm, LoginForm>>] }
NoState == [forms |-> "-", list |-> <<>>]

\* the form_data arguments, as lists of (key, value) items
FormData ==
    { <<>>,
      << <<"email", "a@x.org">> >>,
      << <<"E-MAIL", "a@x.org">>, <<"Name", "Al">> >>,
      << <<"phone", "555">> >> }

\* the messages of the exceptions a client command can end with
ClientErrors == {"Not connected to server", "Command timeout after 30s"}

\* str.lower() of the names that occur
Lower(s) ==
    CASE s = "Email" -> "email"
      [] s = "E-mail" -> "e-mail"
      [] s = "E-MAIL" -> "e-mail"
      [] s = "Name" -> "name"
      [] OTHER -> s

\* the filter of a list
RECURSIVE Select(_, _)
Select(fields, wanted) ==
    IF fields = <<>> THEN <<>>
    ELSE (IF Head(fields).required = wanted THEN <<Head(fields)>> ELSE <<>>)
         \o Select(Tail(fields), wanted)

\* analyze_form, lines 79-123, for the state the client returned
NoAnalysis == [found |-> FALSE, form_id |-> "", field_count |-> 0,
               required_fields |-> <<>>, optional_fields |-> <<>>]
AnalyzeForm(st) ==
    LET forms == IF st.forms = "list" THEN st.list ELSE <<>>
    IN IF forms = <<>>                 \* `not forms`: absent, null or empty
       THEN NoAnalysis                 \* return {}
       ELSE LET form == forms[1]
            IN [found |-> TRUE, form_id |-> form.id,
                field_count |-> Len(form.fields),
                required_fields |-> Select(form.fields, TRUE),
                optional_fields |-> Select(form.fields, FALSE)]

\* lines 158-178: the selector of the first field that key matches by name, label
\* or placeholder, "-" if none does
RECURSIVE MatchField(_, _)
MatchField(all_fields, key) ==
    IF all_fields = <<>> THEN "-"
    ELSE LET field == Head(all_fields)
         IN IF \/ Lower(field.name) = Lower(key)
               \/ Lower(field.label) = Lower(key)
               \/ Lower(field.placeholder) = Lower(key)
            THEN field.selector
            ELSE MatchField(Tail(all_fields), key)

\* lines 148-181: fields_to_fill after the loop over form_data.items()
RECURSIVE MatchAll(_, _, _)
MatchAll(items, an, filled) ==
    IF items = <<>> THEN filled
    ELSE LET selector == MatchField(an.required_fields \o an.optional_fields,
                                    Head(items)[1])
         IN MatchAll(Tail(items), an,
                     IF selector = "-" THEN filled
                     ELSE DictSet(filled, selector, Head(items)[2]))

MultiIdle ==
    /\ ms_pc = "idle"
    /\ ms_steps = <<>>
    /\ ms_idx = 0
    /\ ms_results = <<>>
    /\ ms_sent = <<>>
    /\ ms_outcome = NoOutcome

FormIdle ==
    /\ MultiIdle
    /\ fa_pc = "idle"
    /\ form_data = <<>>
    /\ submit_arg = FALSE
    /\ page_state = NoState
    /\ analysis = NoAnalysis
    /\ fields_to_fill = NoDict
    /\ fa_sent = <<>>
    /\ fa_outcome = NoOutcome

\* ----------------------------- examples/web-scraping-example.py: values
\* line 96: content_selectors
ContentSelectors == <<"article", "[role=\"main\"]", "main", ".content",
                      ".article-body", "body">>
Urls == {"https://a.example/1", "https://b.example/2"}

\* what get_page_state returns: a dict, with a title or none and with links whose
\* href is a text or null, or no dict
PageResults ==
    { [kind |-> "dict", title |-> "News", links |-> "text"],
      [kind |-> "dict", title |-> "-", links |-> "text"],
      [kind |-> "dict", title |-> "News", links |-> "null"],
      [kind |-> "None", title |-> "-", links |-> "text"] }
NoPage == [kind |-> "-", title |-> "-", links |-> "-"]
\* what get_content returns: a dict, its 'content' a text, empty or absent, or no dict
ContentResults ==
    { [kind |-> "dict", content |-> "lorem"],
      [kind |-> "dict", content |-> ""],
      [kind |-> "dict", content |-> "-"],
      [kind |-> "None", content |-> "-"] }
\* what execute_script returns: the metadata dict or None
ScriptResults == {[kind |-> "dict", description |-> "about"],
                  [kind |-> "None", description |-> "-"]}
NoMetadata == [kind |-> "-", description |-> "-"]

NoGet == "'NoneType' object has no attribute 'get'"
NoStartswith == "'NoneType' object has no attribute 'startswith'"

NoCmd == [type |-> "-", exc |-> "-"]
NoResult == [kind |-> "none", url |-> "-", success |-> "-", error |-> "-",
             title |-> "-", content_length |-> 0, description |-> "-"]

ScraperInitWith(n) ==
    /\ errors = <<>>
    /\ sc_pc = "idle"
    /\ sc_url = "-"
    /\ sc_state = NoPage
    /\ content_text = ""
    /\ metadata = NoMetadata
    /\ tried = 0
    /\ last_cmd = NoCmd
    /\ sc_result = NoResult
    /\ scrapes = n

ScraperIdle == ScraperInitWith(0)

NoJob == [name |-> "-", phase |-> "done"]
NoExport == [format |-> "-", data |-> <<>>, errors |-> <<>>]

DriverIdle ==
    /\ scraped_data = <<>>
    /\ job = NoJob
    /\ urls = <<>>
    /\ idx = 0
    /\ results = <<>>
    /\ current_url = ""
    /\ page = 0
    /\ max_pages = 0
    /\ reported = -1
    /\ exported = NoExport

\* --------------------------- examples/network-analysis-example.py: values
MaxRequests == 2

\* the requests of a monitoring result: 'url', 'statusCode' and 'duration' (ms)
PageRequest == [url |-> "https://a.example/p", statusCode |-> 200, duration |-> 10]
ApiRequest == [url |-> "https://b.example/api/x", statusCode |-> 200, duration |-> 10]
SlowRequest == [url |-> "https://b.example/api/x", statusCode |-> 500,
                duration |-> 4000]
RequestLists ==
    UNION {[1..n -> {PageRequest, ApiRequest, SlowRequest}] : n \in 0..MaxRequests}
\* line 230: the urls of the model that hold one of the api_indicators
ApiUrls == {"https://b.example/api/x"}

RECURSIVE Slowest(_)
Slowest(reqs) ==
    IF reqs = <<>> THEN 0
    ELSE LET rest == Slowest(Tail(reqs))
         IN IF Head(reqs).duration > rest THEN Head(reqs).duration ELSE rest

\* analyze_requests, lines 111-212: {} without requests, else the summary (here
\* its counts of requests and of failed requests)
AnalyzeRequests(reqs) ==
    IF reqs = <<>>
    THEN [empty |-> TRUE, total_requests |-> 0, failed_requests |-> 0]
    ELSE [empty |-> FALSE, total_requests |-> Len(reqs),
          failed_requests |-> Len(SelectSeq(reqs, LAMBDA q : q.statusCode >= 400))]
\* detect_api_endpoints, lines 214-251 (no request of the model has a responseType)
DetectApiEndpoints(reqs) == SelectSeq(reqs, LAMBDA q : q.url \in ApiUrls)
\* analyze_performance, lines 253-301: {} without requests, else the metrics
\* (here the slowest request and whether it is recommended to optimise it)
AnalyzePerformance(reqs) ==
    IF reqs = <<>>
    THEN [empty |-> TRUE, slowest |-> 0, recommendations |-> 0]
    ELSE [empty |-> FALSE, slowest |-> Slowest(reqs),
          recommendations |-> IF Slowest(reqs) > 3000 THEN 1 ELSE 0]

\* line 343: the HAR file of the run
HarFile == "/tmp/network_<time>.har"
\* results has no key 'har_file' yet
NoHar == "-"
NoResults == [url |-> "-", monitoring_duration |-> 0, network_data |-> <<>>,
              request_analysis |-> AnalyzeRequests(<<>>), api_endpoints |-> <<>>,
              performance |-> AnalyzePerformance(<<>>), har_file |-> NoHar]

AnalyzerIdle ==
    /\ na_pc = "idle"
    /\ na_url = "-"
    /\ na_duration = 0
    /\ na_results = NoResults
    /\ na_sent = <<>>
    /\ na_outcome = NoOutcome

OthersIdle == FlaskIdle /\ FormIdle /\ ScraperIdle /\ DriverIdle /\ AnalyzerIdle

\* ----------------------------------------------------- the client: Init
InitWith(ts) ==
    /\ connected = FALSE
    /\ responses = NoDict
    /\ command_counter = 0
    /\ ws = 0
    /\ socks = [connecting |-> 0, open |-> 0]
    /\ sent = <<>>
    /\ callers = ts
    /\ pc = [t \in ts |-> "idle"]
    /\ command_id = [t \in ts |-> NoId]
    /\ loaded = [t \in ts |-> 0]
    /\ expired = [t \in ts |-> FALSE]
    /\ response = [t \in ts |-> NoDict]
    /\ outcome = [t \in ts |-> NoOutcome]
    /\ hist = [t \in ts |-> NoHist]
    /\ setBy = FALSE
    /\ delivered = 0
    /\ todo = [t \in ts |-> MaxCmds]
    /\ connects = MaxConnects
    /\ trace = NoTrace

Init == InitWith({"t1"}) /\ OthersIdle
\* --------------------------------------------------- the calling threads
InSend(t) == pc[t] \in {"s_check", "s_load", "s_store", "s_id", "s_send",
                        "s_poll", "s_time", "s_pop"}
InConnect(t) == pc[t] \in {"c_loop", "c_if"}
\* positions at which start_time has been taken
Timed(t) == pc[t] \in {"c_loop", "c_if", "s_poll", "s_time"}
\* positions at which _send_command waits for its response
Waiting(t) == pc[t] \in {"s_poll", "s_time"}

Finish(t, o) ==
    /\ pc' = [pc EXCEPT ![t] = "idle"]
    /\ outcome' = [outcome EXCEPT ![t] = o]

\* Connect starting the new connection with an empty responses map
ConnectResets(t) ==
    /\ pc[t] = "idle"
    /\ connects > 0
    /\ connects' = connects - 1
    /\ socks' = [socks EXCEPT !.connecting = @ + 1]
    /\ ws' = ws + 1
    /\ responses' = NoDict
    /\ expired' = [expired EXCEPT ![t] = FALSE]
    /\ pc' = [pc EXCEPT ![t] = "c_loop"]
    /\ outcome' = [outcome EXCEPT ![t] = NoOutcome]
    /\ hist' = [hist EXCEPT ![t] = [NoHist EXCEPT !.seenTrue = connected]]
    /\ UNCHANGED <<connected, command_counter, sent, budget, trace,
                   others, command_id, loaded, response, setBy>>

\* connect(), lines 94-109: create the WebSocketApp, start its thread, take start_time
Connect(t) ==
    /\ pc[t] = "idle"
    /\ connects > 0
    /\ connects' = connects - 1
    /\ socks' = [socks EXCEPT !.connecting = @ + 1]
    /\ ws' = ws + 1
    /\ expired' = [expired EXCEPT ![t] = FALSE]
    /\ pc' = [pc EXCEPT ![t] = "c_loop"]
    /\ outcome' = [outcome EXCEPT ![t] = NoOutcome]
    /\ hist' = [hist EXCEPT ![t] = [NoHist EXCEPT !.seenTrue = connected]]
    /\ UNCHANGED <<connected, responses, command_counter, sent, budget, trace,
                   others, command_id, loaded, response, setBy>>

\* line 110: while not self.connected and (time.time() - start_time) < timeout
ConnectLoop(t) ==
    /\ pc[t] = "c_loop"
    /\ ~(~connected /\ ~expired[t])    \* else time.sleep(0.1) and test again
    /\ pc' = [pc EXCEPT ![t] = "c_if"]
    /\ UNCHANGED <<shared, fixed, locals, outcome, hist, setBy>>

\* lines 113-116: if not self.connected: raise ...; return True
ConnectCheck(t) ==
    /\ pc[t] = "c_if"
    /\ Finish(t, IF ~connected
                 THEN Raised("connect", "WebSocketException", "Connection timeout")
                 ELSE Returned("connect", "True"))
    /\ UNCHANGED <<shared, fixed, locals, hist, setBy>>

\* disconnect(), lines 118-123
Disconnect(t) ==
    /\ pc[t] = "idle"
    /\ IF ws # 0
       THEN /\ connected' = FALSE      \* self.ws.close() ends in on_close, later
            /\ setBy' = FALSE
       ELSE UNCHANGED <<connected, setBy>>
    /\ UNCHANGED <<responses, command_counter, ws, socks, sent, budget, connects,
                   others, pc, locals, outcome, hist>>
\* _send_command is called: the call begins at its connected check
SendCall(t) ==
    /\ pc[t] = "idle"
    /\ todo[t] > 0
    /\ todo' = [todo EXCEPT ![t] = @ - 1]
    /\ pc' = [pc EXCEPT ![t] = "s_check"]
    /\ expired' = [expired EXCEPT ![t] = FALSE]
    /\ command_id' = [command_id EXCEPT ![t] = NoId]
    /\ loaded' = [loaded EXCEPT ![t] = 0]
    /\ response' = [response EXCEPT ![t] = NoDict]
    /\ outcome' = [outcome EXCEPT ![t] = NoOutcome]
    /\ hist' = [hist EXCEPT ![t] = NoHist]
    /\ UNCHANGED <<shared, callers, delivered, connects, trace, others, setBy>>

\* SendCheck with the counter advanced before the connected check
SendCheckCountsFirst(t) ==
    /\ pc[t] = "s_check"
    /\ command_counter' = command_counter + 1
    /\ IF ~connected
       THEN /\ Finish(t, Raised("_send_command", "Exception", "Not connected to server"))
            /\ UNCHANGED hist
       ELSE /\ pc' = [pc EXCEPT ![t] = "s_load"]
            /\ hist' = [hist EXCEPT ![t].passed = TRUE]
            /\ UNCHANGED outcome
    /\ UNCHANGED <<connected, responses, ws, socks, sent, fixed, locals, setBy>>

\* lines 141-142: if not self.connected: raise Exception("Not connected to server")
SendCheck(t) ==
    /\ pc[t] = "s_check"
    /\ IF ~connected
       THEN /\ Finish(t, Raised("_send_command", "Exception", "Not connected to server"))
            /\ UNCHANGED hist
       ELSE /\ pc' = [pc EXCEPT ![t] = "s_load"]
            /\ hist' = [hist EXCEPT ![t].passed = TRUE]
            /\ UNCHANGED outcome
    /\ UNCHANGED <<shared, fixed, locals, setBy>>

\* line 145, self.command_counter += 1: the read of the attribute
SendLoad(t) ==
    /\ pc[t] = "s_load"
    /\ loaded' = [loaded EXCEPT ![t] = command_counter]
    /\ pc' = [pc EXCEPT ![t] = "s_store"]
    /\ UNCHANGED <<shared, fixed, command_id, expired, response,
                   outcome, hist, setBy>>

\* SendStore writing back the value it read, the increment lost
SendStoreNoIncrement(t) ==
    /\ pc[t] = "s_store"
    /\ command_counter' = loaded[t]
    /\ pc' = [pc EXCEPT ![t] = "s_id"]
    /\ UNCHANGED <<connected, responses, ws, socks, sent, fixed, locals,
                   outcome, hist, setBy>>

\* line 145, self.command_counter += 1: the write of the sum
SendStore(t) ==
    /\ pc[t] = "s_store"
    /\ command_counter' = loaded[t] + 1
    /\ pc' = [pc EXCEPT ![t] = "s_id"]
    /\ UNCHANGED <<connected, responses, ws, socks, sent, fixed, locals,
                   outcome, hist, setBy>>

\* line 146: command_id = f"cmd-{self.command_counter}", a second read of the attribute
SendId(t) ==
    /\ pc[t] = "s_id"
    /\ command_id' = [command_id EXCEPT ![t] = CmdId(command_counter)]
    /\ pc' = [pc EXCEPT ![t] = "s_send"]
    /\ hist' = [hist EXCEPT ![t].got = IF CmdId(command_counter) \in DOMAIN responses
                                       THEN "early" ELSE "no"]
    /\ UNCHANGED <<shared, fixed, loaded, expired, response, outcome,
                   setBy>>

\* lines 149-162: build the command, self.ws.send(json.dumps(command)), take start_time
SendFrame(t, command_type, params) ==
    /\ pc[t] = "s_send"
    /\ sent' = Append(sent, [by |-> t,
                             text |-> JsonDumps(command_id[t], command_type, params)])
    /\ expired' = [expired EXCEPT ![t] = FALSE]
    /\ pc' = [pc EXCEPT ![t] = "s_poll"]
    /\ hist' = [hist EXCEPT ![t].nsent = @ + 1]
    /\ UNCHANGED <<connected, responses, command_counter, ws, socks, fixed,
                   command_id, loaded, response, outcome, setBy>>

\* line 163: while command_id not in self.responses
SendPoll(t) ==
    /\ pc[t] = "s_poll"
    /\ pc' = [pc EXCEPT ![t] = IF command_id[t] \notin DOMAIN responses
                                 THEN "s_time" ELSE "s_pop"]
    /\ hist' = [hist EXCEPT ![t].atPoll = hist[t].got # "no"]
    /\ UNCHANGED <<shared, fixed, locals, outcome, setBy>>

\* SendTime returning an empty result on timeout instead of raising
SendTimeReturnsEmpty(t) ==
    /\ pc[t] = "s_time"
    /\ IF expired[t]
       THEN Finish(t, Returned("_send_command", "{}"))
       ELSE /\ pc' = [pc EXCEPT ![t] = "s_poll"]
            /\ UNCHANGED outcome
    /\ UNCHANGED <<shared, fixed, locals, hist, setBy>>

\* SendTime sending the command again before each sleep
SendTimeResends(t) ==
    /\ pc[t] = "s_time"
    /\ IF expired[t]
       THEN /\ Finish(t, Raised("_send_command", "Exception",
                                "Command timeout after " \o ToString(CommandTimeout) \o "s"))
            /\ UNCHANGED <<sent, hist>>
       ELSE /\ pc' = [pc EXCEPT ![t] = "s_poll"]
            /\ Len(sent) < MaxCmds + 1
            /\ sent' = Append(sent, sent[Len(sent)])
            /\ hist' = [hist EXCEPT ![t].nsent = @ + 1]
            /\ UNCHANGED outcome
    /\ UNCHANGED <<connected, responses, command_counter, ws, socks, fixed, locals,
                   setBy>>

\* SendTime looking at the clock only while the client is connected
SendTimeNeedsConnection(t) ==
    /\ pc[t] = "s_time"
    /\ IF expired[t] /\ connected
       THEN Finish(t, Raised("_send_command", "Exception",
                             "Command timeout after " \o ToString(CommandTimeout) \o "s"))
       ELSE /\ pc' = [pc EXCEPT ![t] = "s_poll"]
            /\ UNCHANGED outcome
    /\ UNCHANGED <<shared, fixed, locals, hist, setBy>>

\* lines 164-166: if (time.time() - start_time) > timeout: raise ...; time.sleep(0.1)
SendTime(t) ==
    /\ pc[t] = "s_time"
    /\ IF expired[t]
       THEN Finish(t, Raised("_send_command", "Exception",
                             "Command timeout after " \o ToString(CommandTimeout) \o "s"))
       ELSE /\ pc' = [pc EXCEPT ![t] = "s_poll"]
            /\ UNCHANGED outcome
    /\ UNCHANGED <<shared, fixed, locals, hist, setBy>>

\* Answer failing only on success == False, and returning a result when there is one
AnswerIsFalse(resp) ==
    IF Get(resp, "success", "None") = "false" /\ "result" \notin DOMAIN resp
    THEN Raised("_send_command", "Exception",
                "Command failed: " \o Get(resp, "error", "Unknown error"))
    ELSE Returned("_send_command", Get(resp, "result", "{}"))

\* lines 172-178: the outcome of the call for the response it popped
Answer(resp) ==
    IF ~Truthy(Get(resp, "success", "None"))
    THEN Raised("_send_command", "Exception",
                "Command failed: " \o Get(resp, "error", "Unknown error"))
    ELSE Returned("_send_command", Get(resp, "result", "{}"))

\* SendPop taking whichever response is stored, not the one of its command_id
SendPopAny(t) ==
    /\ pc[t] = "s_pop"
    /\ \E k \in DOMAIN responses :
          /\ response' = [response EXCEPT ![t] = responses[k]]
          /\ responses' = DictDel(responses, k)
          /\ Finish(t, Answer(responses[k]))
    /\ UNCHANGED <<connected, command_counter, ws, socks, sent, fixed,
                   command_id, loaded, expired, hist, setBy>>

\* SendPop reading the response with responses[command_id], leaving it stored
SendPopKeeps(t) ==
    /\ pc[t] = "s_pop"
    /\ command_id[t] \in DOMAIN responses
    /\ response' = [response EXCEPT ![t] = responses[command_id[t]]]
    /\ Finish(t, Answer(responses[command_id[t]]))
    /\ UNCHANGED <<connected, responses, command_counter, ws, socks, sent, fixed,
                   command_id, loaded, expired, hist, setBy>>

\* lines 169-178: response = self.responses.pop(command_id), then the checks on it
SendPop(t) ==
    /\ pc[t] = "s_pop"
    /\ IF command_id[t] \in DOMAIN responses
       THEN /\ response' = [response EXCEPT ![t] = responses[command_id[t]]]
            /\ responses' = DictDel(responses, command_id[t])
            /\ Finish(t, Answer(responses[command_id[t]]))
       ELSE /\ Finish(t, Raised("_send_command", "KeyError", command_id[t]))
            /\ UNCHANGED <<response, responses>>
    /\ UNCHANGED <<connected, command_counter, ws, socks, sent, fixed,
                   command_id, loaded, expired, hist, setBy>>
\* ------------------------------------------------ the socket's thread
\* OnOpen taking the open socket for a connected extension
OnOpenSetsConnected ==
    /\ socks.connecting > 0
    /\ socks' = [connecting |-> socks.connecting - 1, open |-> socks.open + 1]
    /\ connected' = TRUE
    /\ hist' = [t \in callers |->
                  IF InConnect(t) THEN [hist[t] EXCEPT !.seenTrue = TRUE] ELSE hist[t]]
    /\ UNCHANGED <<responses, command_counter, ws, sent, fixed, pc,
                   locals, outcome, setBy>>

\* on_open, lines 90-92: logs only; the socket can now deliver frames
OnOpen ==
    /\ socks.connecting > 0
    /\ socks' = [connecting |-> socks.connecting - 1, open |-> socks.open + 1]
    /\ UNCHANGED <<connected, responses, command_counter, ws, sent, fixed, pc,
                   locals, outcome, hist, setBy>>

\* StoreResponse going on to the connected branch for a frame of type 'connected'
StoreResponseSetsConnected(data) ==
    /\ responses' = DictSet(responses, data["command_id"], data)
    /\ hist' = [t \in callers |->
                  IF InSend(t) /\ command_id[t] = data["command_id"] /\ hist[t].got = "no"
                  THEN [hist[t] EXCEPT !.got = IF expired[t] THEN "late" ELSE "early"]
                  ELSE hist[t]]
    /\ IF Get(data, "type", "None") = "connected"
       THEN connected' = TRUE /\ setBy' = TRUE
       ELSE UNCHANGED <<connected, setBy>>

\* on_message, lines 72-73: self.responses[data['command_id']] = data
StoreResponse(data) ==
    /\ responses' = DictSet(responses, data["command_id"], data)
    /\ hist' = [t \in callers |->
                  IF InSend(t) /\ command_id[t] = data["command_id"] /\ hist[t].got = "no"
                  THEN [hist[t] EXCEPT !.got = IF expired[t] THEN "late" ELSE "early"]
                  ELSE hist[t]]
    /\ UNCHANGED <<connected, setBy>>

\* on_message, lines 74-76: self.connected = True
SetConnected ==
    /\ connected' = TRUE
    /\ setBy' = TRUE
    /\ hist' = [t \in callers |->
                  IF InConnect(t)
                  THEN [hist[t] EXCEPT !.seenTrue = TRUE,
                                       !.setLate = IF connected THEN @ ELSE expired[t]]
                  ELSE hist[t]]
    /\ UNCHANGED responses

\* DecodeError answering every waiting command with the parse error
DecodeErrorFailsCaller ==
    /\ hist' = [t \in callers |->
                  IF Waiting(t) THEN [hist[t] EXCEPT !.badJson = TRUE] ELSE hist[t]]
    /\ LET waited == {command_id[t] : t \in {u \in callers : Waiting(u)}}
       IN responses' = [k \in DOMAIN responses \cup waited |->
                          IF k \in waited
                          THEN [x \in {"command_id", "error"} |->
                                  IF x = "command_id" THEN k
                                  ELSE "Failed to parse message"]
                          ELSE responses[k]]
    /\ UNCHANGED <<connected, setBy>>

\* on_message, lines 78-79: the JSONDecodeError is caught and logged
DecodeError ==
    /\ hist' = [t \in callers |->
                  IF Waiting(t) THEN [hist[t] EXCEPT !.badJson = TRUE] ELSE hist[t]]
    /\ UNCHANGED <<connected, responses, setBy>>

\* on_message, lines 65-79
OnMessage(message) ==
    /\ socks.open > 0
    /\ delivered < MaxFrames
    /\ delivered' = delivered + 1
    /\ IF ~message.valid
       THEN DecodeError
       ELSE IF message.kind # "object"
       THEN \* `in` and .get of a value that is no dict: the error leaves the handler
            UNCHANGED <<connected, responses, hist, setBy>>
       ELSE LET data == JsonLoads(message)
            IN IF "command_id" \in DOMAIN data
               THEN StoreResponse(data)
               ELSE IF Get(data, "type", "None") = "connected"
               THEN SetConnected
               ELSE UNCHANGED <<connected, responses, hist, setBy>>
    /\ UNCHANGED <<command_counter, ws, socks, sent, callers, todo, connects, others,
                   pc, locals, outcome>>

\* OnClose ending the socket's thread without a write of self.connected
OnCloseKeepsConnected(state) ==
    /\ socks[state] > 0
    /\ socks' = [socks EXCEPT ![state] = @ - 1]
    /\ UNCHANGED <<connected, setBy>>
    /\ UNCHANGED <<responses, command_counter, ws, sent, budget, connects, others,
                   pc, locals, outcome, hist>>

\* on_close, lines 85-88: self.connected = False; the socket's thread ends
OnClose(state) ==
    /\ socks[state] > 0
    /\ socks' = [socks EXCEPT ![state] = @ - 1]
    /\ connected' = FALSE
    /\ setBy' = FALSE
    /\ UNCHANGED <<responses, command_counter, ws, sent, budget, connects, others,
                   pc, locals, outcome, hist>>

\* time passes: a running call's time.time() - start_time reaches its timeout
Tick(t) ==
    /\ Timed(t)
    /\ ~expired[t]
    /\ expired' = [expired EXCEPT ![t] = TRUE]
    /\ UNCHANGED <<shared, fixed, pc, command_id, loaded, response, outcome, hist,
                   setBy>>

Next ==
    \/ \E t \in callers : Connect(t)
    \/ \E t \in callers : ConnectLoop(t)
    \/ \E t \in callers : ConnectCheck(t)
    \/ \E t \in callers : Disconnect(t) /\ UNCHANGED trace
    \/ \E t \in callers : SendCall(t)
    \/ \E t \in callers : SendCheck(t)
    \/ \E t \in callers : SendLoad(t)
    \/ \E t \in callers : SendStore(t)
    \/ \E t \in callers : SendId(t)
    \/ \E t \in callers, ty \in CommandTypes, p \in ParamValues : SendFrame(t, ty, p)
    \/ \E t \in callers : SendPoll(t)
    \/ \E t \in callers : SendTime(t)
    \/ \E t \in callers : SendPop(t)
    \/ OnOpen
    \/ \E m \in Frames : OnMessage(m) /\ UNCHANGED trace
    \/ \E state \in {"connecting", "open"} : OnClose(state) /\ UNCHANGED trace
    \/ \E t \in callers : Tick(t)

\* one calling thread
Spec == Init /\ [][Next]_vars

\* Two threads share a client that one connect() has connected: the state after
\* Connect, OnOpen, the {type: "connected"} frame, ConnectLoop and ConnectCheck.
InitConc ==
    /\ connected = TRUE
    /\ responses = NoDict
    /\ command_counter = 0
    /\ ws = 1
    /\ socks = [connecting |-> 0, open |-> 1]
    /\ sent = <<>>
    /\ callers = Threads
    /\ pc = [t \in Threads |-> "idle"]
    /\ command_id = [t \in Threads |-> NoId]
    /\ loaded = [t \in Threads |-> 0]
    /\ expired = [t \in Threads |-> FALSE]
    /\ response = [t \in Threads |-> NoDict]
    /\ outcome = [t \in Threads |-> NoOutcome]
    /\ hist = [t \in Threads |-> NoHist]
    /\ setBy = TRUE
    /\ delivered = 1
    /\ todo = [t \in Threads |-> 1]
    /\ connects = 0
    /\ trace = NoTrace
    /\ OthersIdle

NextConc ==
    \/ \E t \in callers : SendCall(t)
    \/ \E t \in callers : SendCheck(t)
    \/ \E t \in callers : SendLoad(t)
    \/ \E t \in callers : SendStore(t)
    \/ \E t \in callers : SendId(t)
    \/ \E t \in callers, ty \in CommandTypes, p \in ParamValues : SendFrame(t, ty, p)
    \/ \E t \in callers : SendPoll(t)
    \/ \E t \in callers : SendTime(t)
    \/ \E t \in callers : SendPop(t)
    \/ \E m \in Frames : OnMessage(m) /\ UNCHANGED trace
    \/ \E state \in {"connecting", "open"} : OnClose(state) /\ UNCHANGED trace
    \/ \E t \in callers : Tick(t)

\* two calling threads on the same client
SpecConc == InitConc /\ [][NextConc]_vars
\* the history variable trace takes the handler that runs and the frame it is given
Traced(o, m) == trace' = [op |-> o, frame |-> m, flip |-> ~trace.flip]

NextTraced ==
    \/ \E t \in callers : Connect(t)
    \/ \E t \in callers : ConnectLoop(t)
    \/ \E t \in callers : ConnectCheck(t)
    \/ \E t \in callers : Disconnect(t) /\ Traced("disconnect", NoFrame)
    \/ \E t \in callers : SendCall(t)
    \/ \E t \in callers : SendCheck(t)
    \/ \E t \in callers : SendLoad(t)
    \/ \E t \in callers : SendStore(t)
    \/ \E t \in callers : SendId(t)
    \/ \E t \in callers, ty \in CommandTypes, p \in ParamValues : SendFrame(t, ty, p)
    \/ \E t \in callers : SendPoll(t)
    \/ \E t \in callers : SendTime(t)
    \/ \E t \in callers : SendPop(t)
    \/ OnOpen
    \/ \E m \in Frames : OnMessage(m) /\ Traced("on_message", m)
    \/ \E state \in {"connecting", "open"} : OnClose(state) /\ Traced("on_close", NoFrame)
    \/ \E t \in callers : Tick(t)

\* a new client whose thread makes one connect() and one _send_command call
InitTraced ==
    /\ connected = FALSE
    /\ responses = NoDict
    /\ command_counter = 0
    /\ ws = 0
    /\ socks = [connecting |-> 0, open |-> 0]
    /\ sent = <<>>
    /\ callers = {"t1"}
    /\ pc = [t \in {"t1"} |-> "idle"]
    /\ command_id = [t \in {"t1"} |-> NoId]
    /\ loaded = [t \in {"t1"} |-> 0]
    /\ expired = [t \in {"t1"} |-> FALSE]
    /\ response = [t \in {"t1"} |-> NoDict]
    /\ outcome = [t \in {"t1"} |-> NoOutcome]
    /\ hist = [t \in {"t1"} |-> NoHist]
    /\ setBy = FALSE
    /\ delivered = 0
    /\ todo = [t \in {"t1"} |-> 1]
    /\ connects = 1
    /\ trace = NoTrace
    /\ OthersIdle

\* one calling thread, the handlers of the connection state traced
SpecTraced == InitTraced /\ [][NextTraced]_vars

\* the response to the command a connected client sent first, stored after the
\* command timed out
LateResponse ==
    ObjectText(<< <<"command_id", CmdId(1)>>, <<"success", "true">>, <<"result", "r1">> >>)

\* A client with a late response in its map: the state after connect(), the
\* {type: "connected"} frame, a _send_command that timed out, and its response.
\* The thread has one more _send_command and one more connect() to call.
InitLate ==
    /\ connected = TRUE
    /\ responses = (CmdId(1) :> JsonLoads(LateResponse))
    /\ command_counter = 1
    /\ ws = 1
    /\ socks = [connecting |-> 0, open |-> 1]
    /\ sent = << [by |-> "t1", text |-> JsonDumps(CmdId(1), "navigate", "{}")] >>
    /\ callers = {"t1"}
    /\ pc = [t \in {"t1"} |-> "idle"]
    /\ command_id = [t \in {"t1"} |-> CmdId(1)]
    /\ loaded = [t \in {"t1"} |-> 0]
    /\ expired = [t \in {"t1"} |-> TRUE]
    /\ response = [t \in {"t1"} |-> NoDict]
    /\ outcome = [t \in {"t1"} |->
                    Raised("_send_command", "Exception", "Command timeout after 30s")]
    /\ hist = [t \in {"t1"} |-> [NoHist EXCEPT !.nsent = 1, !.passed = TRUE]]
    /\ setBy = TRUE
    /\ delivered = 2
    /\ todo = [t \in {"t1"} |-> 1]
    /\ connects = 1
    /\ trace = [op |-> "on_message", frame |-> LateResponse, flip |-> FALSE]
    /\ OthersIdle

\* a step of thread t inside _send_command
SendStep(t) ==
    \/ SendCheck(t)
    \/ SendLoad(t)
    \/ SendStore(t)
    \/ SendId(t)
    \/ \E ty \in CommandTypes, p \in ParamValues : SendFrame(t, ty, p)
    \/ SendPoll(t)
    \/ SendTime(t)
    \/ SendPop(t)

\* The calling thread is never suspended for ever inside a call, and the clock
\* reaches the deadline of a call that is still running; the socket's thread and
\* the server owe nothing.
SpecLive ==
    /\ InitTraced
    /\ [][Next]_vars
    /\ WF_vars(SendStep("t1"))
    /\ WF_vars(Tick("t1"))

\* the rest of the run of a client that holds a late response
SpecLate == InitLate /\ [][NextTraced]_vars

\* -------------------------------------------------- flask_test_app/app.py
client == <<connected, responses, command_counter, ws, socks, sent, callers, pc,
            command_id, loaded, expired, response, outcome, hist, setBy,
            delivered, todo, connects, trace>>

\* submit() writing the new configuration over every stored domain as well
SubmitSharesConfig(email, phone, target) ==
    LET target_domain == Or(target, DefaultDomain)
        config == Config(email, Or(phone, ""))
    IN /\ temp_configs' = [d \in DOMAIN temp_configs \cup {target_domain} |-> config]
       /\ reply' = Redirect("https://" \o target_domain \o "/")
       /\ request' = [route |-> "submit", email |-> email, phone |-> phone,
                      target |-> target, origin |-> None]
       /\ posted' = [last |-> target_domain,
                     form |-> DictSet(posted.form, target_domain,
                                      [email |-> email, phone |-> phone])]
       /\ UNCHANGED <<files, client, analyzer, automator, scraper, driver>>

\* submit() filing the configuration under the form's own target text
SubmitKeysRawTarget(email, phone, target) ==
    LET target_domain == Or(target, DefaultDomain)
    IN /\ temp_configs' = DictSet(temp_configs, Str(target),
                                  Config(email, Or(phone, "")))
       /\ reply' = Redirect("https://" \o target_domain \o "/")
       /\ request' = [route |-> "submit", email |-> email, phone |-> phone,
                      target |-> target, origin |-> None]
       /\ posted' = [last |-> target_domain,
                     form |-> DictSet(posted.form, target_domain,
                                      [email |-> email, phone |-> phone])]
       /\ UNCHANGED <<files, client, analyzer, automator, scraper, driver>>

\* POST /submit, lines 17-34
submit(email, phone, target) ==
    LET target_domain == Or(target, DefaultDomain)
    IN /\ temp_configs' = DictSet(temp_configs, target_domain,
                                  Config(email, Or(phone, "")))
       /\ reply' = Redirect("https://" \o target_domain \o "/")
       /\ request' = [route |-> "submit", email |-> email, phone |-> phone,
                      target |-> target, origin |-> None]
       /\ posted' = [last |-> target_domain,
                     form |-> DictSet(posted.form, target_domain,
                                      [email |-> email, phone |-> phone])]
       /\ UNCHANGED <<files, client, analyzer, automator, scraper, driver>>

\* get_config() looking for the file before the in-memory store
GetConfigFileFirst(origin) ==
    /\ reply' = IF ConfigPath(origin) \in files
                THEN Json(200, Jsonify(SafeLoad(ConfigPath(origin))))
                ELSE IF origin \in DOMAIN temp_configs
                THEN Json(200, Jsonify(temp_configs[origin]))
                ELSE NotFound
    /\ request' = [NoRequest EXCEPT !.route = "config", !.origin = origin]
    /\ UNCHANGED <<temp_configs, files, posted, client, analyzer, automator, scraper, driver>>

\* get_config() handing a stored configuration out once
GetConfigPops(origin) ==
    /\ reply' = IF origin \in DOMAIN temp_configs
                THEN Json(200, Jsonify(temp_configs[origin]))
                ELSE IF ConfigPath(origin) \in files
                THEN Json(200, Jsonify(SafeLoad(ConfigPath(origin))))
                ELSE NotFound
    /\ temp_configs' = DictDel(temp_configs, origin)
    /\ request' = [NoRequest EXCEPT !.route = "config", !.origin = origin]
    /\ UNCHANGED <<files, posted, client, analyzer, automator, scraper, driver>>

\* GET /config, lines 36-48
get_config(origin) ==
    /\ reply' = IF origin \in DOMAIN temp_configs
                THEN Json(200, Jsonify(temp_configs[origin]))
                ELSE IF ConfigPath(origin) \in files
                THEN Json(200, Jsonify(SafeLoad(ConfigPath(origin))))
                ELSE NotFound
    /\ request' = [NoRequest EXCEPT !.route = "config", !.origin = origin]
    /\ UNCHANGED <<temp_configs, files, posted, client, analyzer, automator, scraper, driver>>

InitFlask ==
    /\ InitWith({"t1"})
    /\ FormIdle
    /\ ScraperIdle
    /\ DriverIdle
    /\ AnalyzerIdle
    /\ \E fs \in SUBSET ConfigFiles : FlaskInitWith(fs)

NextFlask ==
    \/ \E email \in Emails, phone \in Phones, target \in Targets :
          submit(email, phone, target)
    \/ \E origin \in Origins : get_config(origin)

\* the demo server, its requests handled one at a time
SpecFlask == InitFlask /\ [][NextFlask]_vars

\* ----------------------- examples/form-automation-example.py, FormAutomator
\* fill_form_intelligently is called, lines 125-139
FillBegin(data, sub) ==
    /\ fa_pc = "idle"
    /\ fa_pc' = "analyze"
    /\ form_data' = data
    /\ submit_arg' = sub
    /\ page_state' = NoState
    /\ analysis' = NoAnalysis
    /\ fields_to_fill' = NoDict
    /\ fa_sent' = <<>>
    /\ fa_outcome' = NoOutcome

\* fill_form_intelligently is called by the user of the automator
FillCall(data, sub) ==
    /\ ms_pc = "idle"
    /\ FillBegin(data, sub)
    /\ UNCHANGED <<multistep, client, analyzer, flask, scraper, driver>>

\* line 142 and analyze_form, lines 78-123: the client's get_page_state ends with
\* the exception e, or returns st
Analyze(st, e) ==
    /\ fa_pc = "analyze"
    /\ fa_sent' = Append(fa_sent, [type |-> "get_page_state", fields |-> NoDict,
                                   submit |-> FALSE])
    /\ IF e # "-"
       THEN /\ fa_outcome' = Raised("fill_form_intelligently", "Exception", e)
            /\ fa_pc' = "idle"
            /\ UNCHANGED <<page_state, analysis>>
       ELSE /\ page_state' = st
            /\ analysis' = AnalyzeForm(st)
            /\ fa_pc' = "f_check"
            /\ UNCHANGED fa_outcome
    /\ UNCHANGED <<form_data, submit_arg, fields_to_fill, multistep, client, analyzer, flask,
                   scraper, driver>>

\* FillCheck going on to fill whatever the analysis found
FillCheckGoesOn ==
    /\ fa_pc = "f_check"
    /\ fields_to_fill' = MatchAll(form_data, analysis, NoDict)
    /\ fa_pc' = "f_fill"
    /\ UNCHANGED <<form_data, submit_arg, page_state, analysis, fa_sent, fa_outcome,
                   multistep, client, analyzer, flask, scraper, driver>>

\* lines 144-181: no analysis raises; else the selector-to-value mapping is built
FillCheck ==
    /\ fa_pc = "f_check"
    /\ IF ~analysis.found
       THEN /\ fa_outcome' = Raised("fill_form_intelligently", "Exception",
                                    "No form found on page")
            /\ fa_pc' = "idle"
            /\ UNCHANGED fields_to_fill
       ELSE /\ fields_to_fill' = MatchAll(form_data, analysis, NoDict)
            /\ fa_pc' = "f_fill"
            /\ UNCHANGED fa_outcome
    /\ UNCHANGED <<form_data, submit_arg, page_state, analysis, fa_sent, multistep,
                   client, analyzer, flask, scraper, driver>>

\* lines 185-191: the client's fill_form ends with the exception e, or returns result
Fill(result, e) ==
    /\ fa_pc = "f_fill"
    /\ fa_sent' = Append(fa_sent, [type |-> "fill_form", fields |-> fields_to_fill,
                                   submit |-> submit_arg])
    /\ fa_outcome' = IF e # "-"
                     THEN Raised("fill_form_intelligently", "Exception", e)
                     ELSE Returned("fill_form_intelligently", result)
    /\ fa_pc' = "idle"
    /\ UNCHANGED <<form_data, submit_arg, page_state, analysis, fields_to_fill,
                   multistep, client, analyzer, flask, scraper, driver>>

InitForm ==
    /\ InitWith({"t1"})
    /\ FlaskIdle
    /\ FormIdle
    /\ ScraperIdle
    /\ DriverIdle
    /\ AnalyzerIdle

NextForm ==
    \/ \E data \in FormData, sub \in BOOLEAN : FillCall(data, sub)
    \/ \E st \in PageStates : Analyze(st, "-")
    \/ \E e \in ClientErrors : Analyze(NoState, e)
    \/ FillCheck
    \/ \E result \in {"r1", "{}"} : Fill(result, "-")
    \/ \E e \in ClientErrors : Fill("-", e)

\* calls of fill_form_intelligently, one after the other
SpecForm == InitForm /\ [][NextForm]_vars

\* ------------------------------------ FormAutomator.fill_multi_step_form
MaxSteps == 2

\* a step: 'fields' as the list of its items ({} when the key is absent), and
\* 'next_button', "" when it is absent, None or empty; 'wait_after' is only slept
StepValues ==
    [fields : {<<>>, << <<"email", "a@x.org">> >>}, next_button : {"", "#next"}]
StepLists == UNION {[1..n -> StepValues] : n \in 0..MaxSteps}

\* the results of the client's fill_form: without the key 'success', empty, or
\* with 'success' true
SuccessResult == "{\"success\": true}"
FillResults == {"r1", "{}", SuccessResult}
\* line 214: result.get('success', False)
ResultSuccess(r) == IF r = SuccessResult THEN "True" ELSE "False"

\* fill_multi_step_form is called, lines 193-204
StepsCall(ss) ==
    /\ ms_pc = "idle"
    /\ fa_pc = "idle"
    /\ ms_pc' = "loop"
    /\ ms_steps' = ss
    /\ ms_idx' = 0
    /\ ms_results' = <<>>
    /\ ms_sent' = <<>>
    /\ ms_outcome' = NoOutcome
    /\ UNCHANGED <<fa_pc, form_data, submit_arg, page_state, analysis, fields_to_fill,
                   fa_sent, fa_outcome, client, analyzer, flask, scraper, driver>>

\* lines 206-211 and 240-241: the next step's fields are filled, or the results
\* are returned
StepsLoop ==
    /\ ms_pc = "loop"
    /\ IF ms_idx < Len(ms_steps)
       THEN /\ ms_idx' = ms_idx + 1
            /\ FillBegin(ms_steps[ms_idx + 1].fields, FALSE)
            /\ ms_pc' = "filling"
            /\ UNCHANGED ms_outcome
       ELSE /\ ms_outcome' = Returned("fill_multi_step_form", "results")
            /\ ms_pc' = "idle"
            /\ UNCHANGED <<ms_idx, fa_pc, form_data, submit_arg, page_state, analysis,
                           fields_to_fill, fa_sent, fa_outcome>>
    /\ UNCHANGED <<ms_steps, ms_results, ms_sent, client, analyzer, flask, scraper, driver>>

\* the commands fill_form_intelligently sent for the step
StepSent == [i \in 1..Len(fa_sent) |->
                [step |-> ms_idx, type |-> fa_sent[i].type, click_exc |-> "-"]]

\* lines 211-224: fill_form_intelligently has raised, which ends the call, or has
\* returned its result
StepFilled ==
    /\ ms_pc = "filling"
    /\ fa_pc = "idle"
    /\ ms_sent' = ms_sent \o StepSent
    /\ IF fa_outcome.kind = "raised"
       THEN /\ ms_outcome' = Raised("fill_multi_step_form", fa_outcome.exc,
                                    fa_outcome.val)
            /\ ms_pc' = "idle"
            /\ UNCHANGED ms_results
       ELSE /\ ms_results' = Append(ms_results,
                                [step |-> ms_idx, result |-> fa_outcome.val,
                                 success |-> ResultSuccess(fa_outcome.val),
                                 error |-> "-"])
            /\ ms_pc' = IF ms_steps[ms_idx].next_button # "" THEN "click" ELSE "loop"
            /\ UNCHANGED ms_outcome
    /\ UNCHANGED <<ms_steps, ms_idx, fa_pc, form_data, submit_arg, page_state,
                   analysis, fields_to_fill, fa_sent, fa_outcome, client, analyzer, flask,
                   scraper, driver>>

\* Click going on to the next step after a click that raised
ClickGoesOn(e) ==
    /\ ms_pc = "click"
    /\ ms_sent' = Append(ms_sent, [step |-> ms_idx, type |-> "click", click_exc |-> e])
    /\ ms_results' = IF e # "-"
                     THEN [ms_results EXCEPT ![Len(ms_results)].error = e]
                     ELSE ms_results
    /\ ms_pc' = "loop"
    /\ UNCHANGED <<ms_steps, ms_idx, ms_outcome, fa_pc, form_data, submit_arg,
                   page_state, analysis, fields_to_fill, fa_sent, fa_outcome, client, analyzer,
                   flask, scraper, driver>>

\* lines 226-241: self.client.click ends with the exception e, or returns
Click(e) ==
    /\ ms_pc = "click"
    /\ ms_sent' = Append(ms_sent, [step |-> ms_idx, type |-> "click", click_exc |-> e])
    /\ IF e # "-"
       THEN /\ ms_results' = [ms_results EXCEPT ![Len(ms_results)].error = e]
            /\ ms_outcome' = Returned("fill_multi_step_form", "results")   \* break
            /\ ms_pc' = "idle"
       ELSE /\ ms_pc' = "loop"
            /\ UNCHANGED <<ms_results, ms_outcome>>
    /\ UNCHANGED <<ms_steps, ms_idx, fa_pc, form_data, submit_arg, page_state,
                   analysis, fields_to_fill, fa_sent, fa_outcome, client, analyzer, flask,
                   scraper, driver>>

NextSteps ==
    \/ \E ss \in StepLists : StepsCall(ss)
    \/ StepsLoop
    \/ \E st \in PageStates : Analyze(st, "-")
    \/ \E e \in ClientErrors : Analyze(NoState, e)
    \/ FillCheck
    \/ \E result \in FillResults : Fill(result, "-")
    \/ \E e \in ClientErrors : Fill("-", e)
    \/ StepFilled
    \/ \E e \in ClientErrors \cup {"-"} : Click(e)

\* calls of fill_multi_step_form, one after the other
SpecSteps == InitForm /\ [][NextSteps]_vars

\* --------------------------- examples/web-scraping-example.py, WebScraper
\* scrape_article is called, lines 69-80
ScrapeBegin(u) ==
    /\ sc_pc = "idle"
    /\ scrapes > 0
    /\ scrapes' = scrapes - 1
    /\ sc_pc' = "navigate"
    /\ sc_url' = u
    /\ sc_state' = NoPage
    /\ content_text' = ""
    /\ metadata' = NoMetadata
    /\ tried' = 0
    /\ last_cmd' = NoCmd
    /\ sc_result' = NoResult
    /\ UNCHANGED errors

\* scrape_article is called by the user of the scraper
ScrapeCall(u) ==
    /\ job.phase = "done"
    /\ ScrapeBegin(u)
    /\ UNCHANGED <<driver, client, analyzer, flask, automator>>

\* ScrapeFailed recording the error and raising it again
ScrapeFailedRaises(e) ==
    /\ errors' = Append(errors, [url |-> sc_url, error |-> e])
    /\ sc_result' = [NoResult EXCEPT !.kind = "raised", !.url = sc_url, !.error = e]
    /\ sc_pc' = "idle"

\* ScrapeFailed returning the failure record without an entry in self.errors
ScrapeFailedForgets(e) ==
    /\ sc_result' = [NoResult EXCEPT !.kind = "returned", !.url = sc_url,
                                     !.success = "False", !.error = e]
    /\ sc_pc' = "idle"
    /\ UNCHANGED errors

\* lines 164-178: the handler of `except Exception as e`, str(e) being e
ScrapeFailed(e) ==
    /\ errors' = Append(errors, [url |-> sc_url, error |-> e])
    /\ sc_result' = [NoResult EXCEPT !.kind = "returned", !.url = sc_url,
                                     !.success = "False", !.error = e]
    /\ sc_pc' = "idle"

\* line 83: self.client.navigate ends with the exception e, or returns
Navigate(e) ==
    /\ sc_pc = "navigate"
    /\ last_cmd' = [type |-> "navigate", exc |-> e]
    /\ IF e # "-"
       THEN ScrapeFailed(e)
       ELSE /\ sc_pc' = "page_state"
            /\ UNCHANGED <<errors, sc_result>>
    /\ UNCHANGED <<sc_url, sc_state, content_text, metadata, tried, scrapes,
                   driver, client, analyzer, flask, automator>>

\* lines 89-92: self.client.get_page_state ends with the exception e, or returns r;
\* state.get of a result that is no dict raises
GetPageState(r, e) ==
    /\ sc_pc = "page_state"
    /\ last_cmd' = [type |-> "get_page_state", exc |-> e]
    /\ IF e # "-"
       THEN ScrapeFailed(e) /\ UNCHANGED sc_state
       ELSE /\ sc_state' = r
            /\ IF r.kind # "dict"
               THEN ScrapeFailed(NoGet)
               ELSE /\ sc_pc' = "content"
                    /\ UNCHANGED <<errors, sc_result>>
    /\ UNCHANGED <<sc_url, content_text, metadata, tried, scrapes,
                   driver, client, analyzer, flask, automator>>

\* lines 106-115, one turn of the loop: self.client.get_content ends with the
\* exception e, or returns r; an exception, of content.get as well, is caught here
GetContent(r, e) ==
    /\ sc_pc = "content"
    /\ tried < Len(ContentSelectors)
    /\ tried' = tried + 1
    /\ last_cmd' = [type |-> "get_content", exc |-> e]
    /\ IF e = "-" /\ r.kind = "dict" /\ r.content \notin {"", "-"}
       THEN /\ content_text' = r.content
            /\ sc_pc' = "script"                       \* break
       ELSE /\ UNCHANGED content_text
            /\ sc_pc' = IF tried + 1 = Len(ContentSelectors)
                        THEN "script" ELSE "content"
    /\ UNCHANGED <<errors, sc_url, sc_state, metadata, sc_result, scrapes,
                   driver, client, analyzer, flask, automator>>

\* lines 118-135: self.client.execute_script ends with the exception e, or returns
\* r; then the links are filtered, and .startswith of a null href raises
ExecuteScript(r, e) ==
    /\ sc_pc = "script"
    /\ last_cmd' = [type |-> "execute_script", exc |-> e]
    /\ IF e # "-"
       THEN ScrapeFailed(e) /\ UNCHANGED metadata
       ELSE /\ metadata' = r
            /\ IF sc_state.links = "null"
               THEN ScrapeFailed(NoStartswith)
               ELSE /\ sc_pc' = "screenshot"
                    /\ UNCHANGED <<errors, sc_result>>
    /\ UNCHANGED <<sc_url, sc_state, content_text, tried, scrapes,
                   driver, client, analyzer, flask, automator>>

\* lines 138-162: self.client.save_screenshot ends with the exception e, or
\* returns; then the result is built, and metadata.get of None raises
SaveScreenshot(e) ==
    /\ sc_pc = "screenshot"
    /\ last_cmd' = [type |-> "save_screenshot", exc |-> e]
    /\ IF e # "-"
       THEN ScrapeFailed(e)
       ELSE IF metadata.kind # "dict"
       THEN ScrapeFailed(NoGet)
       ELSE /\ sc_result' = [kind |-> "returned", url |-> sc_url, success |-> "True",
                             error |-> "-",
                             title |-> IF sc_state.title = "-" THEN "N/A"
                                       ELSE sc_state.title,
                             content_length |-> IF content_text = "" THEN 0 ELSE 5,
                             description |-> metadata.description]
            /\ sc_pc' = "idle"
            /\ UNCHANGED errors
    /\ UNCHANGED <<sc_url, sc_state, content_text, metadata, tried, scrapes,
                   driver, client, analyzer, flask, automator>>

InitScraper ==
    /\ InitWith({"t1"})
    /\ FlaskIdle
    /\ FormIdle
    /\ ScraperInitWith(MaxScrapes)
    /\ DriverIdle
    /\ AnalyzerIdle

NextScraper ==
    \/ \E u \in Urls : ScrapeCall(u)
    \/ \E e \in ClientErrors \cup {"-"} : Navigate(e)
    \/ \E r \in PageResults : GetPageState(r, "-")
    \/ \E e \in ClientErrors : GetPageState(NoPage, e)
    \/ \E r \in ContentResults : GetContent(r, "-")
    \/ \E e \in ClientErrors : GetContent([kind |-> "None", content |-> "-"], e)
    \/ \E r \in ScriptResults : ExecuteScript(r, "-")
    \/ \E e \in ClientErrors : ExecuteScript(NoMetadata, e)
    \/ \E e \in ClientErrors \cup {"-"} : SaveScreenshot(e)

\* calls of scrape_article, one after the other
SpecScraper == InitScraper /\ [][NextScraper]_vars

\* ---------------- WebScraper: scrape_list, scrape_with_pagination, exports
\* the url lists a run can pass to scrape_list
UrlLists == UNION {[1..n -> Urls] : n \in 0..MaxScrapes}
\* what the next-page script returns: the href of the link, or null
NextLinks == Urls \cup {None}

\* scrape_list is called, lines 180-195
ListCall(us) ==
    /\ sc_pc = "idle"
    /\ job.phase = "done"
    /\ Len(us) <= scrapes
    /\ job' = [name |-> "scrape_list", phase |-> "loop"]
    /\ urls' = us
    /\ idx' = 0
    /\ results' = <<>>
    /\ UNCHANGED <<scraped_data, current_url, page, max_pages, reported, exported,
                   scraper, client, analyzer, flask, automator>>

\* lines 197-201 and 210-222: the next url is scraped, or the results are returned
ListLoop ==
    /\ job = [name |-> "scrape_list", phase |-> "loop"]
    /\ IF idx < Len(urls)
       THEN /\ idx' = idx + 1
            /\ ScrapeBegin(urls[idx + 1])
            /\ job' = [job EXCEPT !.phase = "scraping"]
       ELSE /\ job' = [job EXCEPT !.phase = "done"]
            /\ UNCHANGED <<idx, scraper>>
    /\ UNCHANGED <<scraped_data, urls, results, current_url, page, max_pages,
                   reported, exported, client, analyzer, flask, automator>>

\* ListAppend giving up the list at the first failed scrape
ListAppendStopsOnFailure ==
    /\ job = [name |-> "scrape_list", phase |-> "scraping"]
    /\ sc_pc = "idle"
    /\ results' = Append(results, sc_result)
    /\ scraped_data' = Append(scraped_data, sc_result)
    /\ job' = [job EXCEPT !.phase = IF sc_result.success = "False"
                                    THEN "done" ELSE "loop"]
    /\ UNCHANGED <<urls, idx, current_url, page, max_pages, reported, exported,
                   scraper, client, analyzer, flask, automator>>

\* lines 201-208: scrape_article has returned
ListAppend ==
    /\ job = [name |-> "scrape_list", phase |-> "scraping"]
    /\ sc_pc = "idle"
    /\ results' = Append(results, sc_result)
    /\ scraped_data' = Append(scraped_data, sc_result)
    /\ job' = [job EXCEPT !.phase = "loop"]
    /\ UNCHANGED <<urls, idx, current_url, page, max_pages, reported, exported,
                   scraper, client, analyzer, flask, automator>>

\* scrape_with_pagination is called, lines 224-243
PagesCall(start_url, mp) ==
    /\ sc_pc = "idle"
    /\ job.phase = "done"
    /\ mp <= scrapes
    /\ job' = [name |-> "scrape_with_pagination", phase |-> "loop"]
    /\ current_url' = start_url
    /\ page' = 1
    /\ max_pages' = mp
    /\ results' = <<>>
    /\ reported' = -1
    /\ UNCHANGED <<scraped_data, urls, idx, exported, scraper, client, analyzer, flask,
                   automator>>

\* PagesLoop going on for as long as there is a next page
PagesLoopUnbounded ==
    /\ job = [name |-> "scrape_with_pagination", phase |-> "loop"]
    /\ IF current_url # ""
       THEN /\ ScrapeBegin(current_url)
            /\ job' = [job EXCEPT !.phase = "scraping"]
            /\ UNCHANGED reported
       ELSE /\ reported' = page
            /\ job' = [job EXCEPT !.phase = "done"]
            /\ UNCHANGED scraper
    /\ UNCHANGED <<scraped_data, urls, idx, results, current_url, page, max_pages,
                   exported, client, analyzer, flask, automator>>

\* lines 245-249 and 272-273: while current_url and page <= max_pages
PagesLoop ==
    /\ job = [name |-> "scrape_with_pagination", phase |-> "loop"]
    /\ IF current_url # "" /\ page <= max_pages
       THEN /\ ScrapeBegin(current_url)
            /\ job' = [job EXCEPT !.phase = "scraping"]
            /\ UNCHANGED reported
       ELSE /\ reported' = page
            /\ job' = [job EXCEPT !.phase = "done"]
            /\ UNCHANGED scraper
    /\ UNCHANGED <<scraped_data, urls, idx, results, current_url, page, max_pages,
                   exported, client, analyzer, flask, automator>>

\* PagesAppend keeping the page in self.scraped_data as well
PagesAppendStores ==
    /\ job = [name |-> "scrape_with_pagination", phase |-> "scraping"]
    /\ sc_pc = "idle"
    /\ results' = Append(results, sc_result)
    /\ scraped_data' = Append(scraped_data, sc_result)
    /\ job' = [job EXCEPT !.phase = "next"]
    /\ UNCHANGED <<urls, idx, current_url, page, max_pages, reported,
                   exported, scraper, client, analyzer, flask, automator>>

\* lines 249-250: scrape_article has returned
PagesAppend ==
    /\ job = [name |-> "scrape_with_pagination", phase |-> "scraping"]
    /\ sc_pc = "idle"
    /\ results' = Append(results, sc_result)
    /\ job' = [job EXCEPT !.phase = "next"]
    /\ UNCHANGED <<scraped_data, urls, idx, current_url, page, max_pages, reported,
                   exported, scraper, client, analyzer, flask, automator>>

\* lines 253-273: self.client.execute_script ends with the exception e, or returns
\* next_url; a break goes to the log line and the return
PagesNext(next_url, e) ==
    /\ job = [name |-> "scrape_with_pagination", phase |-> "next"]
    /\ IF e = "-" /\ next_url \notin {None, ""} /\ next_url # current_url
       THEN /\ current_url' = next_url
            /\ page' = page + 1
            /\ job' = [job EXCEPT !.phase = "loop"]
            /\ UNCHANGED reported
       ELSE /\ reported' = page
            /\ job' = [job EXCEPT !.phase = "done"]
            /\ UNCHANGED <<current_url, page>>
    /\ UNCHANGED <<scraped_data, urls, idx, results, max_pages, exported, scraper,
                   client, analyzer, flask, automator>>

\* export_to_csv, lines 275-299: rows only
export_to_csv ==
    /\ sc_pc = "idle"
    /\ job.phase = "done"
    /\ IF scraped_data = <<>>                 \* `if not self.scraped_data: return`
       THEN UNCHANGED exported
       ELSE exported' = [format |-> "csv", data |-> scraped_data, errors |-> <<>>]
    /\ UNCHANGED <<scraped_data, job, urls, idx, results, current_url, page,
                   max_pages, reported, scraper, client, analyzer, flask, automator>>

\* export_to_json, lines 301-324: 'data' and 'errors'
export_to_json ==
    /\ sc_pc = "idle"
    /\ job.phase = "done"
    /\ IF scraped_data = <<>>                 \* `if not self.scraped_data: return`
       THEN UNCHANGED exported
       ELSE exported' = [format |-> "json", data |-> scraped_data, errors |-> errors]
    /\ UNCHANGED <<scraped_data, job, urls, idx, results, current_url, page,
                   max_pages, reported, scraper, client, analyzer, flask, automator>>

\* a step inside scrape_article
ScrapeStep ==
    \/ \E e \in ClientErrors \cup {"-"} : Navigate(e)
    \/ \E r \in PageResults : GetPageState(r, "-")
    \/ \E e \in ClientErrors : GetPageState(NoPage, e)
    \/ \E r \in ContentResults : GetContent(r, "-")
    \/ \E e \in ClientErrors : GetContent([kind |-> "None", content |-> "-"], e)
    \/ \E r \in ScriptResults : ExecuteScript(r, "-")
    \/ \E e \in ClientErrors : ExecuteScript(NoMetadata, e)
    \/ \E e \in ClientErrors \cup {"-"} : SaveScreenshot(e)

NextJobs ==
    \/ \E u \in Urls : ScrapeCall(u)
    \/ \E e \in ClientErrors \cup {"-"} : Navigate(e)
    \/ \E r \in PageResults : GetPageState(r, "-")
    \/ \E e \in ClientErrors : GetPageState(NoPage, e)
    \/ \E r \in ContentResults : GetContent(r, "-")
    \/ \E e \in ClientErrors : GetContent([kind |-> "None", content |-> "-"], e)
    \/ \E r \in ScriptResults : ExecuteScript(r, "-")
    \/ \E e \in ClientErrors : ExecuteScript(NoMetadata, e)
    \/ \E e \in ClientErrors \cup {"-"} : SaveScreenshot(e)
    \/ \E us \in UrlLists : ListCall(us)
    \/ ListLoop
    \/ ListAppend
    \/ \E u \in Urls \cup {""}, mp \in 0..MaxScrapes : PagesCall(u, mp)
    \/ PagesLoop
    \/ PagesAppend
    \/ \E u \in NextLinks : PagesNext(u, "-")
    \/ \E e \in ClientErrors : PagesNext(None, e)
    \/ export_to_csv
    \/ export_to_json

\* a scraper whose run scrapes two pages in all
InitJobs ==
    /\ InitWith({"t1"})
    /\ FlaskIdle
    /\ FormIdle
    /\ ScraperInitWith(2)
    /\ DriverIdle
    /\ AnalyzerIdle

\* every method of a WebScraper, called one after the other
SpecJobs == InitJobs /\ [][NextJobs]_vars

\* a step of scrape_with_pagination itself
PagesStep ==
    \/ PagesLoop
    \/ PagesAppend
    \/ \E u \in NextLinks : PagesNext(u, "-")
    \/ \E e \in ClientErrors : PagesNext(None, e)

NextPages ==
    \/ \E u \in Urls \cup {""}, mp \in 0..MaxScrapes : PagesCall(u, mp)
    \/ PagesLoop
    \/ PagesAppend
    \/ \E u \in NextLinks : PagesNext(u, "-")
    \/ \E e \in ClientErrors : PagesNext(None, e)
    \/ \E e \in ClientErrors \cup {"-"} : Navigate(e)
    \/ \E r \in PageResults : GetPageState(r, "-")
    \/ \E e \in ClientErrors : GetPageState(NoPage, e)
    \/ \E r \in ContentResults : GetContent(r, "-")
    \/ \E e \in ClientErrors : GetContent([kind |-> "None", content |-> "-"], e)
    \/ \E r \in ScriptResults : ExecuteScript(r, "-")
    \/ \E e \in ClientErrors : ExecuteScript(NoMetadata, e)
    \/ \E e \in ClientErrors \cup {"-"} : SaveScreenshot(e)

\* Calls of scrape_with_pagination. The thread that runs one is never suspended
\* for ever: every command of the client returns or raises within its timeout,
\* and time.sleep(2) ends.
SpecPages ==
    /\ InitJobs
    /\ [][NextPages]_vars
    /\ WF_vars(PagesStep)
    /\ WF_vars(ScrapeStep)

\* ------------- examples/network-analysis-example.py, NetworkAnalyzer
\* run_analysis is called, lines 303-317
RunCall(u, dur) ==
    /\ na_pc = "idle"
    /\ na_pc' = "start"
    /\ na_url' = u
    /\ na_duration' = dur
    /\ na_results' = NoResults
    /\ na_sent' = <<>>
    /\ na_outcome' = NoOutcome
    /\ UNCHANGED <<client, flask, automator, scraper, driver>>

\* line 320 and start_monitoring, lines 68-73: the command ends with the
\* exception e, or returns
StartMonitoring(e) ==
    /\ na_pc = "start"
    /\ na_sent' = Append(na_sent, [type |-> "start_network_monitoring", exc |-> e])
    /\ IF e # "-"
       THEN /\ na_outcome' = Raised("run_analysis", "Exception", e)
            /\ na_pc' = "idle"
       ELSE /\ na_pc' = "goto"
            /\ UNCHANGED na_outcome
    /\ UNCHANGED <<na_url, na_duration, na_results, client, flask, automator,
                   scraper, driver>>

\* lines 322-324: self.client.navigate ends with the exception e, or returns
RunNavigate(e) ==
    /\ na_pc = "goto"
    /\ na_sent' = Append(na_sent, [type |-> "navigate", exc |-> e])
    /\ IF e # "-"
       THEN /\ na_outcome' = Raised("run_analysis", "Exception", e)
            /\ na_pc' = "idle"
       ELSE /\ na_pc' = "stop"
            /\ UNCHANGED na_outcome
    /\ UNCHANGED <<na_url, na_duration, na_results, client, flask, automator,
                   scraper, driver>>

\* lines 326-340 and stop_monitoring, lines 75-80: the command ends with the
\* exception e, or returns the requests reqs, which are analysed
StopMonitoring(reqs, e) ==
    /\ na_pc = "stop"
    /\ na_sent' = Append(na_sent, [type |-> "stop_network_monitoring", exc |-> e])
    /\ IF e # "-"
       THEN /\ na_outcome' = Raised("run_analysis", "Exception", e)
            /\ na_pc' = "idle"
            /\ UNCHANGED na_results
       ELSE /\ na_results' = [url |-> na_url, monitoring_duration |-> na_duration,
                              network_data |-> reqs,
                              request_analysis |-> AnalyzeRequests(reqs),
                              api_endpoints |-> DetectApiEndpoints(reqs),
                              performance |-> AnalyzePerformance(reqs),
                              har_file |-> NoHar]
            /\ na_pc' = "export"
            /\ UNCHANGED na_outcome
    /\ UNCHANGED <<na_url, na_duration, client, flask, automator, scraper, driver>>

\* ExportHar letting the exception of export_har out of run_analysis
ExportHarRaises(e, w) ==
    /\ na_pc = "export"
    /\ na_sent' = Append(na_sent, [type |-> "export_network_har",
                                   exc |-> IF e # "-" THEN e ELSE w])
    /\ IF e # "-" \/ w # "-"
       THEN /\ na_outcome' = Raised("run_analysis", "Exception",
                                    IF e # "-" THEN e ELSE w)
            /\ UNCHANGED na_results
       ELSE /\ na_results' = [na_results EXCEPT !.har_file = HarFile]
            /\ na_outcome' = Returned("run_analysis", "results")
    /\ na_pc' = "idle"
    /\ UNCHANGED <<na_url, na_duration, client, flask, automator, scraper, driver>>

\* lines 342-351 and export_har, lines 89-109: the command export_network_har
\* ends with the exception e, or returns and the write of the file ends with
\* the exception w, or the file is written
ExportHar(e, w) ==
    /\ na_pc = "export"
    /\ na_sent' = Append(na_sent, [type |-> "export_network_har",
                                   exc |-> IF e # "-" THEN e ELSE w])
    /\ na_results' = [na_results EXCEPT
                        !.har_file = IF e # "-" \/ w # "-" THEN None ELSE HarFile]
    /\ na_outcome' = Returned("run_analysis", "results")
    /\ na_pc' = "idle"
    /\ UNCHANGED <<na_url, na_duration, client, flask, automator, scraper, driver>>

\* what the write of the HAR file can raise
WriteErrors == {"[Errno 13] Permission denied"}

InitAnalyzer ==
    /\ InitWith({"t1"})
    /\ FlaskIdle
    /\ FormIdle
    /\ ScraperIdle
    /\ DriverIdle
    /\ AnalyzerIdle

NextAnalyzer ==
    \/ \E u \in Urls, dur \in {0, 10} : RunCall(u, dur)
    \/ \E e \in ClientErrors \cup {"-"} : StartMonitoring(e)
    \/ \E e \in ClientErrors \cup {"-"} : RunNavigate(e)
    \/ \E reqs \in RequestLists : StopMonitoring(reqs, "-")
    \/ \E e \in ClientErrors : StopMonitoring(<<>>, e)
    \/ \E e \in ClientErrors \cup {"-"} : ExportHar(e, "-")
    \/ \E w \in WriteErrors : ExportHar("-", w)

\* calls of run_analysis, one after the other
SpecAnalyzer == InitAnalyzer /\ [][NextAnalyzer]_vars

\* ------------------------------------------------------------ properties
\* the command_id of the i-th frame handed to ws.send, as its receiver parses it
SentId(i) == JsonLoads(sent[i].text)["command_id"]
\* the dicts on_message can build from the frames of the wire
Parsed == {JsonLoads(m) : m \in {f \in Frames : f.valid /\ f.kind = "object"}}
\* thread t's last call was a _send_command that has ended
Ended(t) == pc[t] = "idle" /\ outcome[t].op = "_send_command"
TimeoutError ==
    Raised("_send_command", "Exception", "Command timeout after 30s")
NotConnectedError ==
    Raised("_send_command", "Exception", "Not connected to server")
ConnectTimeoutError ==
    Raised("connect", "WebSocketException", "Connection timeout")
FalsySuccess(resp) ==
    "success" \notin DOMAIN resp \/ resp["success"] \in {"false", "0", "null", "\"\""}

\* C1: with one calling thread, a value _send_command returns is the 'result' field
\* of a received response whose command_id is the command_id of the frame the call
\* sent; every stored response is a received frame filed under its own command_id.
C1_ReturnsOwnResponse ==
    /\ \A k \in DOMAIN responses :
          responses[k] \in Parsed /\ "command_id" \in DOMAIN responses[k]
                                  /\ responses[k]["command_id"] = k
    /\ \A t \in callers :
          Ended(t) /\ outcome[t].kind = "returned" =>
             /\ response[t] \in Parsed
             /\ "command_id" \in DOMAIN response[t]
             /\ response[t]["command_id"] = command_id[t]
             /\ hist[t].nsent = 1 /\ SentId(Len(sent)) = command_id[t]
             /\ outcome[t].val =
                   (IF "result" \in DOMAIN response[t] THEN response[t]["result"] ELSE "{}")

\* C1 witness: the second command returned its own result while the late response
\* to the first, timed-out command is still stored.
C1_Witness ==
    /\ Ended("t1") /\ outcome["t1"] = Returned("_send_command", "r1")
    /\ command_id["t1"] = "cmd-2"
    /\ "cmd-1" \in DOMAIN responses

\* C2 as stated: a call that passed the connected check and got no response with
\* its command_id before the timeout elapsed ends with the timeout error.
C2_TimeoutIfNoneBeforeDeadline ==
    \A t \in callers :
       Ended(t) /\ hist[t].passed /\ hist[t].got # "early" => outcome[t] = TimeoutError

\* C2 amended: a call that passed the connected check and had received no response
\* with its command_id by its last poll of the responses map ends with
\* Exception('Command timeout after 30s') and returns nothing; it raises that error
\* only after the timeout has elapsed.
C2_TimeoutIfNoneAtLastPoll ==
    \A t \in callers :
       /\ Ended(t) /\ hist[t].passed /\ ~hist[t].atPoll => outcome[t] = TimeoutError
       /\ Ended(t) /\ outcome[t] = TimeoutError => expired[t] /\ response[t] = NoDict

\* C2 witness: a call timed out although its response did come, after its last poll.
C2_Witness ==
    Ended("t1") /\ outcome["t1"] = TimeoutError /\ hist["t1"].got = "late"

\* C3 as stated: connect() returns True only if connected was set by a connected
\* frame before the connection timeout elapsed.
C3_ConnectedBeforeDeadline ==
    \A t \in callers :
       outcome[t] = Returned("connect", "True") => ~hist[t].setLate

\* C3 amended: connected is True only by on_message's handling of an unsolicited
\* connected frame; connect() returns True only if the flag was so set at some moment
\* of the call, up to its last check of the flag; if the flag was never set during
\* the call it raises WebSocketException('Connection timeout').  An open socket
\* alone does not set the flag.
C3_ConnectNeedsFrame ==
    /\ connected => setBy
    /\ \A t \in callers :
          /\ outcome[t] = Returned("connect", "True") => hist[t].seenTrue
          /\ pc[t] = "idle" /\ outcome[t].op = "connect" /\ ~hist[t].seenTrue
                => outcome[t] = ConnectTimeoutError

\* C3 witness: connect() returned True on a flag that the frame set.
C3_Witness ==
    outcome["t1"] = Returned("connect", "True") /\ hist["t1"].seenTrue /\ connected

\* C4: the step in which _send_command consumes the response to its command removes
\* the entry of its command_id from responses, and only that entry.
C4_ClearedOnReceipt ==
    [][\A t \in callers :
          pc[t] = "s_pop" /\ pc'[t] = "idle" /\ outcome'[t].exc # "KeyError" =>
             /\ command_id[t] \in DOMAIN responses
             /\ command_id[t] \notin DOMAIN responses'
             /\ responses' = [k \in DOMAIN responses \ {command_id[t]} |-> responses[k]]
             /\ response'[t] = responses[command_id[t]]]_vars

\* C4 witness: a call has consumed its response, and the entry is gone.
C4_Witness ==
    /\ Ended("t1") /\ response["t1"] # NoDict
    /\ command_id["t1"] \notin DOMAIN responses

\* C5: the step of _send_command's connected check taken while connected is False
\* ends the call with Exception('Not connected to server') and changes neither the
\* frames sent, nor command_counter, nor responses.
C5_NotConnectedNoEffect ==
    [][\A t \in callers :
          pc[t] = "s_check" /\ pc'[t] # "s_check" /\ ~connected =>
             /\ pc'[t] = "idle"
             /\ outcome'[t] = NotConnectedError
             /\ UNCHANGED <<sent, command_counter, responses, connected>>]_vars

\* C5 witness: after one command was sent, a later call found the client
\* disconnected and ended with the error.
C5_Witness ==
    Ended("t1") /\ outcome["t1"] = NotConnectedError /\ Len(sent) = 1

\* C6: a call whose response has a missing or falsy 'success' raises
\* Exception('Command failed: <error>'), <error> being the response's 'error' or
\* 'Unknown error'; it does not return the response's 'result'.
C6_FailedCommandRaises ==
    \A t \in callers :
       Ended(t) /\ response[t] # NoDict /\ FalsySuccess(response[t]) =>
          /\ outcome[t].kind = "raised" /\ outcome[t].exc = "Exception"
          /\ outcome[t].val = (IF "error" \in DOMAIN response[t]
                               THEN "Command failed: " \o response[t]["error"]
                               ELSE "Command failed: Unknown error")

\* C6 witness: a response without success and error but with a result was consumed.
C6_Witness ==
    /\ Ended("t1") /\ "result" \in DOMAIN response["t1"]
    /\ "success" \notin DOMAIN response["t1"]
    /\ outcome["t1"].val = "Command failed: Unknown error"
\* C7: with one calling thread the k-th frame sent carries command_id 'cmd-k', a
\* call about to send holds the next such id, command_counter is the number of
\* commands sent (one more while a call is between its increment and its send), and
\* no two frames share a command_id.
C7_SequentialIds ==
    /\ \A i \in 1..Len(sent) : SentId(i) = "cmd-" \o ToString(i)
    /\ \A i, j \in 1..Len(sent) : i # j => SentId(i) # SentId(j)
    /\ \A t \in callers :
          /\ pc[t] \in {"s_id", "s_send"} => command_counter = Len(sent) + 1
          /\ pc[t] = "s_send" => command_id[t] = "cmd-" \o ToString(Len(sent) + 1)
          /\ pc[t] \notin {"s_id", "s_send"} => command_counter = Len(sent)

\* C7 witness: the second command was sent after the first one timed out.
C7_Witness ==
    /\ Len(sent) = 2 /\ SentId(2) = "cmd-2"
    /\ "cmd-1" \notin DOMAIN responses /\ outcome["t1"] = TimeoutError

\* C8: with two calling threads no two frames sent share a command_id, and a call
\* that returns a value returns the result of a response to its own command_id.
C8_UniqueUnderConcurrency ==
    /\ \A i, j \in 1..Len(sent) : i # j => SentId(i) # SentId(j)
    /\ \A t \in callers :
          Ended(t) /\ outcome[t].kind = "returned" =>
             "command_id" \in DOMAIN response[t]
                /\ response[t]["command_id"] = command_id[t]

\* C9: a call that passed the connected check has handed exactly one frame to
\* ws.send from its send on, whatever its end, and none before; no more frames
\* were sent than calls were made; every frame sent is an object whose keys are
\* command_id, type and params.
C9_OneFramePerCall ==
    /\ \A t \in callers :
          /\ hist[t].passed /\ pc[t] \in {"s_poll", "s_time", "s_pop", "idle"}
                => hist[t].nsent = 1
          /\ pc[t] \in {"s_check", "s_load", "s_store", "s_id", "s_send"}
                => hist[t].nsent = 0
          /\ ~hist[t].passed => hist[t].nsent = 0
    /\ Len(sent) <= MaxCmds - todo["t1"]
    /\ \A i \in 1..Len(sent) :
          /\ sent[i].text.valid /\ sent[i].text.kind = "object"
          /\ Len(sent[i].text.members) = 3
          /\ {sent[i].text.members[j][1] : j \in 1..3} = {"command_id", "type", "params"}

\* C9 witness: a call timed out after polling more than once, one frame sent.
C9_Witness ==
    /\ Ended("t1") /\ outcome["t1"] = TimeoutError
    /\ hist["t1"].nsent = 1 /\ Len(sent) = 1

\* C10 as stated: a call that was waiting when an unparsable frame came ends with an
\* exception.
C10_DecodeErrorRaises ==
    \A t \in callers : Ended(t) /\ hist[t].badJson => outcome[t].kind = "raised"

\* C10 amended: the JSON decode error stays inside on_message.  The step that
\* delivers an unparsable frame to a waiting call changes no attribute of the client
\* and ends no call, and no call ever ends with an error other than 'Not connected
\* to server', the command timeout, 'Command failed: ...' and 'Connection timeout'.
C10_DecodeErrorStaysInside ==
    /\ [][(\E t \in callers : hist'[t].badJson /\ ~hist[t].badJson) =>
             UNCHANGED <<connected, responses, command_counter, ws, sent, pc,
                         outcome, response>>]_vars
    /\ [](\A t \in callers :
             outcome[t].kind = "raised" =>
                outcome[t] \in {NotConnectedError, TimeoutError, ConnectTimeoutError,
                                Raised("_send_command", "Exception",
                                       "Command failed: Unknown error"),
                                Raised("_send_command", "Exception",
                                       "Command failed: boom")})

\* C10 witness: a call returned its result although an unparsable frame had come
\* while it waited.
C10_Witness ==
    Ended("t1") /\ hist["t1"].badJson /\ outcome["t1"].kind = "returned"

\* C11: once a form with email E has been submitted for the target domain T, a GET
\* /config for origin T is answered 200 with the configuration whose email field
\* holds E and whose phone field holds the submitted phone, or '' if there was
\* none, however many submits for other domains came later.
C11_SubmittedConfigServed ==
    (request.route = "config" /\ request.origin \in DOMAIN posted.form) =>
        LET form == posted.form[request.origin]
        IN /\ reply.status = 200
           /\ DOMAIN reply.json = {EmailPath, PhonePath}
           /\ reply.json[EmailPath] = JsonValue(form.email)
           /\ reply.json[PhonePath] =
                 JsonValue(IF form.phone \in {None, ""} THEN "" ELSE form.phone)

\* the configuration of d1.org is served after a later submit for the default domain
C11_Witness ==
    /\ request.route = "config"
    /\ request.origin = "d1.org"
    /\ "d1.org" \in DOMAIN posted.form
    /\ posted.form["d1.org"] = [email |-> "a@x.org", phone |-> "555"]
    /\ posted.last = DefaultDomain
    /\ posted.form[DefaultDomain].email = "b@y.org"
    /\ reply.status = 200
    /\ reply.json[EmailPath] = "\"a@x.org\""

\* C12: GET /config for origin X is answered 404 with {'error': 'No config found'}
\* exactly when X is no key of the in-memory store and no file configs/X.yaml
\* exists; otherwise it is answered with a configuration, the stored one if there
\* is one and the file's if not.
C12_NotFoundExactly ==
    request.route = "config" =>
        LET X == request.origin
            stored == X \in DOMAIN temp_configs
            onDisk == ("configs/" \o Str(X) \o ".yaml") \in files
        IN /\ reply.status \in {200, 404}
           /\ reply.status = 404 <=> (~stored /\ ~onDisk)
           /\ reply.status = 404 => reply.json = ("error" :> "\"No config found\"")
           /\ stored => reply.json = Jsonify(temp_configs[X])
           /\ (~stored /\ onDisk) => reply.json = Jsonify(SafeLoad(ConfigPath(X)))

\* a domain with neither a stored configuration nor a file, while another has both
C12_Witness ==
    /\ request.route = "config"
    /\ request.origin = "d2.org"
    /\ reply.status = 404
    /\ "d1.org" \in DOMAIN temp_configs
    /\ ConfigPath("d1.org") \in files
    /\ ConfigPath("d2.org") \notin files

\* C13: POST /submit stores the configuration under the domain it redirects to:
\* the key is D and the response is a redirect to https://D/, where D is the form's
\* target, or haveibeenpwned.com when the target is missing or empty.
C13_StoresWhereItRedirects ==
    request.route = "submit" =>
        LET D == IF request.target = None \/ request.target = ""
                 THEN "haveibeenpwned.com" ELSE request.target
        IN /\ reply.status = 302
           /\ reply.location = "https://" \o D \o "/"
           /\ D \in DOMAIN temp_configs
           /\ temp_configs[D][EmailPath] = request.email

\* a form with an empty target is stored under the default domain
C13_Witness ==
    /\ request.route = "submit"
    /\ request.target = ""
    /\ request.email = "a@x.org"
    /\ reply.location = "https://haveibeenpwned.com/"
    /\ DOMAIN temp_configs = {DefaultDomain}
    /\ temp_configs[DefaultDomain][EmailPath] = "a@x.org"

\* C19: GET /config never changes the store, and two GETs for the same origin
\* with no request between them get the same answer; POST /submit changes the
\* store at its own domain only, where the new configuration replaces the whole of
\* the old one (a phone that is not submitted again becomes '').
C19_OnlySubmitWrites ==
    [][ /\ request'.route = "config" => temp_configs' = temp_configs
        /\ (request'.route = "config" /\ request.route = "config"
              /\ request'.origin = request.origin) => reply' = reply
        /\ request'.route = "submit" =>
             LET D == IF request'.target \in {None, ""}
                      THEN "haveibeenpwned.com" ELSE request'.target
             IN /\ DOMAIN temp_configs' = DOMAIN temp_configs \cup {D}
                /\ \A d \in DOMAIN temp_configs \ {D} :
                      temp_configs'[d] = temp_configs[d]
                /\ temp_configs'[D] =
                      (EmailPath :> request'.email) @@
                      (PhonePath :> IF request'.phone \in {None, ""}
                                    THEN "" ELSE request'.phone)
      ]_vars

\* a GET for d1.org, whose last form had no phone, finds the store as the submit
\* left it
C19_Witness ==
    /\ request.route = "config"
    /\ request.origin = "d1.org"
    /\ "d1.org" \in DOMAIN posted.form
    /\ posted.form["d1.org"] = [email |-> "b@y.org", phone |-> None]
    /\ reply.status = 200
    /\ reply.json[PhonePath] = "\"\""
    /\ temp_configs["d1.org"] = Config("b@y.org", "")

\* the id k was given to a command before and no running call waits for it
Abandoned(k) ==
    \E n \in 1..command_counter :
        /\ k = CmdId(n)
        /\ \A t \in callers :
              InSend(t) => /\ command_id[t] # k
                           /\ ~(pc[t] = "s_id" /\ n = command_counter)

Member(m, k) ==
    IF m.valid /\ m.kind = "object" /\ \E i \in 1..Len(m.members) : m.members[i][1] = k
    THEN JsonLoads(m)[k] ELSE "-"

\* C16: on_message files a frame that has a command_id under that id and leaves
\* connected as it was, whatever the frame's type; a frame without command_id whose
\* type is 'connected' sets connected and leaves responses as it was; any other
\* frame, a frame that is no JSON included, leaves both as they were.
C16_FrameRouting ==
    [][ (trace' # trace /\ trace'.op = "on_message") =>
          LET m == trace'.frame
              k == Member(m, "command_id")
          IN IF k # "-"
             THEN /\ DOMAIN responses' = DOMAIN responses \cup {k}
                  /\ responses'[k] = JsonLoads(m)
                  /\ \A x \in DOMAIN responses \ {k} : responses'[x] = responses[x]
                  /\ connected' = connected
             ELSE IF Member(m, "type") = "connected"
             THEN connected' = TRUE /\ responses' = responses
             ELSE connected' = connected /\ responses' = responses
      ]_vars

\* a frame with a command_id and the type 'connected' came to a client that is not
\* connected: it is stored and the client is still not connected
C16_Witness ==
    /\ trace.op = "on_message"
    /\ Member(trace.frame, "command_id") = CmdId(1)
    /\ Member(trace.frame, "type") = "connected"
    /\ ~connected
    /\ socks.open > 0
    /\ CmdId(1) \in DOMAIN responses
    /\ Get(responses[CmdId(1)], "type", "None") = "connected"

\* C17: after on_close, and after disconnect() on a client that has a socket,
\* connected is False; it becomes True again only by a frame of type 'connected'
\* that has no command_id; a _send_command that makes its connected check while
\* connected is False raises 'Not connected to server' and sends nothing; and
\* disconnect() on a client that never created a socket changes nothing.
C17_ClosedUntilConnectedFrame ==
    /\ [](trace.op = "on_close" => ~connected)
    /\ []((trace.op = "disconnect" /\ ws # 0) => ~connected)
    /\ [][ /\ (~connected /\ connected') =>
                /\ trace' # trace
                /\ trace'.op = "on_message"
                /\ Member(trace'.frame, "type") = "connected"
                /\ Member(trace'.frame, "command_id") = "-"
           /\ \A t \in callers :
                (pc[t] = "s_check" /\ pc'[t] # "s_check" /\ ~connected) =>
                    /\ pc'[t] = "idle"
                    /\ outcome'[t] =
                         Raised("_send_command", "Exception", "Not connected to server")
                    /\ sent' = sent
           /\ (trace' # trace /\ trace'.op = "disconnect" /\ ws = 0) =>
                UNCHANGED <<connected, responses, command_counter, ws, socks, sent,
                            pc, command_id, response, outcome>>
         ]_vars

\* the socket of a client that had received a frame closed, and the command called
\* next was refused
C17_Witness ==
    /\ trace.op = "on_close"
    /\ delivered >= 1
    /\ socks = [connecting |-> 0, open |-> 0]
    /\ ws = 1
    /\ pc["t1"] = "idle"
    /\ outcome["t1"] = Raised("_send_command", "Exception", "Not connected to server")
    /\ todo["t1"] = 0
    /\ sent = <<>>

\* C18: every _send_command call ends, given that its thread keeps running and
\* time advances: without a response, and with the connection closed while the
\* call waits, it ends by the timeout.
C18_SendTerminates ==
    InSend("t1") ~> (pc["t1"] = "idle" /\ outcome["t1"].op = "_send_command")

\* the call sent its frame, the connection closed, no response came, and the call
\* ended with the timeout
C18_Witness ==
    /\ pc["t1"] = "idle"
    /\ outcome["t1"] = Raised("_send_command", "Exception", "Command timeout after 30s")
    /\ hist["t1"].passed
    /\ hist["t1"].got = "no"
    /\ Len(sent) = 1
    /\ responses = NoDict
    /\ ~connected
    /\ socks = [connecting |-> 0, open |-> 0]

\* C14: when the page state the client returned lists no forms (the key is absent,
\* null or an empty list), fill_form_intelligently ends with Exception('No form
\* found on page'), and at no point of the call is a fill_form command sent.
C14_NoFormRaises ==
    (page_state # NoState /\ (page_state.forms # "list" \/ page_state.list = <<>>)) =>
        /\ fa_pc \in {"f_check", "idle"}
        /\ \A i \in 1..Len(fa_sent) : fa_sent[i].type # "fill_form"
        /\ fa_pc = "idle" =>
             fa_outcome = Raised("fill_form_intelligently", "Exception",
                                 "No form found on page")

\* a call with form data ended on a page whose state has forms: null
C14_Witness ==
    /\ fa_pc = "idle"
    /\ page_state = [forms |-> "null", list |-> <<>>]
    /\ form_data = << <<"email", "a@x.org">> >>
    /\ submit_arg
    /\ fa_outcome.kind = "raised"
    /\ fa_outcome.val = "No form found on page"
    /\ Len(fa_sent) = 1
    /\ fa_sent[1].type = "get_page_state"

\* C20: scrape_article never raises.  The step that ends a call returns a record
\* for the call's url: when the client command of that step raised, the record
\* has success False and the exception's text; a record with success False comes
\* with exactly one new entry of errors, holding the url and the same text; a
\* record with success True comes with errors as it was.  No other step changes
\* errors, and a turn of the selector loop, whatever get_content did, neither
\* ends the call nor touches errors.
C20_ScrapeNeverRaises ==
    /\ [](sc_result.kind # "raised")
    /\ [][ /\ (sc_pc # "idle" /\ sc_pc' = "idle") =>
                /\ sc_result'.kind = "returned"
                /\ sc_result'.url = sc_url
                /\ sc_result'.success \in {"True", "False"}
                /\ last_cmd'.exc # "-" =>
                     (sc_result'.success = "False" /\ sc_result'.error = last_cmd'.exc)
                /\ sc_result'.success = "True" => errors' = errors
                /\ sc_result'.success = "False" =>
                     errors' = Append(errors, [url |-> sc_url,
                                               error |-> sc_result'.error])
           /\ ~(sc_pc # "idle" /\ sc_pc' = "idle") => errors' = errors
           /\ sc_pc = "content" => (sc_pc' \in {"content", "script"} /\ errors' = errors)
         ]_vars

\* every selector was tried without content, then execute_script timed out: the
\* call returned the failure record and errors has its one entry
C20_Witness ==
    /\ sc_pc = "idle"
    /\ tried = Len(ContentSelectors)
    /\ content_text = ""
    /\ last_cmd = [type |-> "execute_script", exc |-> "Command timeout after 30s"]
    /\ sc_result.kind = "returned"
    /\ sc_result.success = "False"
    /\ sc_result.error = "Command timeout after 30s"
    /\ errors = << [url |-> sc_url, error |-> "Command timeout after 30s"] >>


\* the last n entries of the sequence q
Last(q, n) == SubSeq(q, Len(q) - n + 1, Len(q))

\* C21: scrape_list returns exactly one result per input url, in the order of
\* the input, and has appended the same results in the same order to
\* self.scraped_data; a failed scrape of one url neither stops the list nor
\* skips a later url.
C21_OneResultPerUrl ==
    job.name = "scrape_list" =>
        /\ Len(results) <= Len(urls)
        /\ \A i \in 1..Len(results) : results[i].url = urls[i]
        /\ Len(results) <= Len(scraped_data)
        /\ Last(scraped_data, Len(results)) = results
        /\ job.phase = "done" => Len(results) = Len(urls)

\* scrape_list has returned two results, the first one a failure
C21_Witness ==
    /\ job = [name |-> "scrape_list", phase |-> "done"]
    /\ Len(urls) = 2
    /\ Len(results) = 2
    /\ results[1].success = "False"
    /\ results[2].success = "True"
    /\ urls[1] # urls[2]
    /\ scraped_data = results


Paginating == job.name = "scrape_with_pagination"

\* the calls of scrape_article the running scrape_with_pagination has made
PagesScraped == Len(results) + (IF job.phase = "scraping" THEN 1 ELSE 0)

\* C22: scrape_with_pagination terminates, and calls scrape_article at most
\* max_pages times, whatever the 'next' links are, cycles included; it goes on
\* to another page only with a next link that is present, differs from the
\* current url and whose lookup did not raise.
C22_PaginationBounded ==
    /\ [](Paginating => PagesScraped <= max_pages)
    /\ [][(Paginating /\ job.phase = "next" /\ job'.phase = "loop")
            => /\ current_url' \in Urls
               /\ current_url' # current_url
               /\ page' = page + 1]_vars
    /\ (Paginating /\ job.phase # "done") ~> (job.phase = "done")

\* two pages that link to each other were scraped, and max_pages ended the loop
C22_Witness ==
    /\ job = [name |-> "scrape_with_pagination", phase |-> "done"]
    /\ max_pages = 2
    /\ Len(results) = 2
    /\ results[1].url # results[2].url
    /\ current_url = results[1].url


\* C23: when scrape_with_pagination finishes, the page count of its log line
\* 'Scraped {page} pages total' is the number of pages it scraped, the length
\* of the returned list, whichever way the loop ended.
C23_ReportedIsScraped ==
    (Paginating /\ job.phase = "done") => reported = Len(results)


\* the records of self.scraped_data whose 'success' is False
Failed == {i \in 1..Len(scraped_data) : scraped_data[i].success = "False"}

\* C24: in every reachable state, self.scraped_data holds at most as many
\* records with success False as self.errors holds entries.
C24_FailuresHaveErrors == Cardinality(Failed) <= Len(errors)

\* scrape_list kept a failed record, after a direct scrape_article had failed
C24_Witness ==
    /\ Cardinality(Failed) = 1
    /\ Len(scraped_data) = 1
    /\ Len(errors) = 2
    /\ errors[2].url = scraped_data[1].url


\* C25: scrape_with_pagination and a direct scrape_article leave
\* self.scraped_data as it is, only scrape_list adds to it; so export_to_csv and
\* export_to_json write none of those pages, and write nothing at all as long
\* as scrape_list has stored nothing.
C25_OnlyListStores ==
    /\ [][scraped_data' # scraped_data
            => /\ job = [name |-> "scrape_list", phase |-> "scraping"]
               /\ scraped_data' = Append(scraped_data, sc_result)]_vars
    /\ [][exported' # exported
            => /\ scraped_data # <<>>
               /\ exported'.data = scraped_data]_vars
    /\ [](scraped_data = <<>> => exported = NoExport)

\* an export made after scrape_with_pagination had scraped a page that failed:
\* the file holds the one record of scrape_list
C25_Witness ==
    /\ job = [name |-> "scrape_with_pagination", phase |-> "done"]
    /\ Len(results) = 1
    /\ results[1].success = "False"
    /\ exported.format = "json"
    /\ Len(exported.errors) = 1
    /\ Len(exported.data) = 1
    /\ exported.data[1].success = "True"
    /\ exported.data = scraped_data

\* the commands of the running or last fill_multi_step_form are in step order
InStepOrder ==
    \A i \in 1..Len(ms_sent) : \A j \in i..Len(ms_sent) :
        ms_sent[i].step <= ms_sent[j].step

ClickRaised ==
    /\ ms_sent # <<>>
    /\ ms_sent[Len(ms_sent)].type = "click"
    /\ ms_sent[Len(ms_sent)].click_exc # "-"

\* C26: fill_multi_step_form takes the steps in the given order; when the click
\* of a step's next_button raises, it records the error on that step's result
\* and stops: the list it returns has one entry for each step attempted, the
\* last of them with 'error', and no fill_form or click command is sent for a
\* later step.
C26_StopsAtFailedClick ==
    /\ [](/\ InStepOrder
          /\ \A i \in 1..Len(ms_results) : ms_results[i].step = i
          /\ ms_outcome.kind = "returned" => Len(ms_results) = ms_idx)
    /\ [](ClickRaised =>
            /\ ms_pc = "idle"
            /\ ms_outcome = Returned("fill_multi_step_form", "results")
            /\ Len(ms_results) = ms_sent[Len(ms_sent)].step
            /\ ms_results[Len(ms_results)].error = ms_sent[Len(ms_sent)].click_exc
            /\ \A i \in 1..(Len(ms_results) - 1) : ms_results[i].error = "-")
    /\ [][ClickRaised => (ms_sent' = ms_sent \/ ms_sent' = <<>>)]_vars

\* the click of the first of two steps raised: one entry, with 'error'
C26_Witness ==
    /\ ClickRaised
    /\ Len(ms_steps) = 2
    /\ ms_steps[2].next_button # ""
    /\ Len(ms_results) = 1
    /\ ms_results[1].error \in ClientErrors
    /\ ms_outcome.kind = "returned"

\* the command the running or last run_analysis sent last
LastSent == IF na_sent = <<>> THEN [type |-> "-", exc |-> "-"]
            ELSE na_sent[Len(na_sent)]

\* results as the four steps before the export leave them
Complete(res) ==
    /\ res.url = na_url
    /\ res.monitoring_duration = na_duration
    /\ res.request_analysis = AnalyzeRequests(res.network_data)
    /\ res.api_endpoints = DetectApiEndpoints(res.network_data)
    /\ res.performance = AnalyzePerformance(res.network_data)

\* C27: a failure of export_network_har does not fail run_analysis, which still
\* returns the complete results, with har_file None; a failure of
\* start_network_monitoring, navigate or stop_network_monitoring propagates to
\* the caller.
C27_HarFailureIsNotFatal ==
    /\ [](LastSent.type = "export_network_har"
            => /\ na_outcome = Returned("run_analysis", "results")
               /\ Complete(na_results)
               /\ na_results.har_file = IF LastSent.exc # "-" THEN None ELSE HarFile)
    /\ [][na_pc = "export" /\ na_pc' # na_pc
            => na_results'.network_data = na_results.network_data]_vars
    /\ []((/\ LastSent.type \in {"start_network_monitoring", "navigate",
                                 "stop_network_monitoring"}
           /\ LastSent.exc # "-")
            => /\ na_outcome = Raised("run_analysis", "Exception", LastSent.exc)
               /\ na_pc = "idle")

\* run_analysis returned the analysis of two requests without a HAR file
C27_Witness ==
    /\ na_outcome = Returned("run_analysis", "results")
    /\ LastSent = [type |-> "export_network_har", exc |-> "Command timeout after 30s"]
    /\ na_results.har_file = None
    /\ Len(na_results.network_data) = 2
    /\ Len(na_results.api_endpoints) = 1
    /\ na_results.performance.recommendations = 1
====
